---- MODULE Spec2Model ----
(***************************************************************************)
(* ArcadeLauncher: the Score Store (leaderboard.py), the launcher          *)
(* (main.py) and the session controllers and collision loops of the five   *)
(* mini-games, as state machines.                                          *)
(***************************************************************************)
EXTENDS Integers, Sequences, FiniteSets, TLC

VARIABLES
    file,   \* leaderboard.json: [state: "missing" | "corrupt" | "json", lb: the mapping]
    last,   \* the last Score Store call: its name, arguments, and what it saw
    pc,     \* where the launcher is: "launcher" (its menu) or "game" (inside run_*_game)
    game,   \* game_index of the game launch_game is running
    ses,    \* the locals and entities of the running run_*_game
    now,    \* pygame.time.get_ticks(), in ms
    ev,     \* what the last step of the game loop did (the transient collision events)
    hist    \* history: launches and restarts so far, ms of unpaused play in this wave

vars == <<file, last, pc, game, ses, now, ev, hist>>

-----------------------------------------------------------------------------
(* Bounds of the model *)

\* number of add_score calls followed in one behaviour of the store
MaxAdds == 2
MaxStoreAdds == 6
MaxSwarmTicks == 9
\* number of games launched from the launcher in one behaviour
MaxSessions == 1
\* number of restarts ("Play Again") inside one launched game
MaxRestarts == 1
\* number of score changes followed inside one launched game (Pong, which ends
\* at winning_score, is not counted)
MaxGains == 2
\* the score each game holds in a leaderboard.json left by earlier play
PriorHigh == 1
MaxPowerUps == 1
MaxPipes == 1
MaxCalls == 2
MaxPaddleTicks == 3
MaxPongTicks == 28
MaxPoints == 1
MaxMoves == 8
MaxShots == 2
MaxFoes == 2
MaxTicks == 2
BallTop == 40
BallBottom == 66
MaxBullets == 1
MaxEnemies == 1
MaxClock == 2
ClockStep == 10001
\* scores offered to add_score run from -1 to MaxScoreVal
MaxScoreVal == 1

-----------------------------------------------------------------------------
(* Score Store: leaderboard.py *)

\* constants.GAME_TITLES, indexed as main.py launch_game indexes it
GAME_TITLES ==
    <<"Snake", "Pong", "Breakout", "Flappy Bird", "Space Shooter",
      "Tetris", "Pac-Man", "Racing">>

TitleSet == {GAME_TITLES[i] : i \in 1..Len(GAME_TITLES)}

\* {game: [] for game in GAME_TITLES}
EmptyLeaderboard == [g \in TitleSet |-> <<>>]

\* sorted(...)[:5] keeps this many entries
TopN == 5

\* leaderboard.json holding the mapping lb
Json(lb) == [state |-> "json", lb |-> lb]

\* no leaderboard.json, and one whose text json.load rejects (lb is not read)
Missing == [state |-> "missing", lb |-> EmptyLeaderboard]
Corrupt == [state |-> "corrupt", lb |-> EmptyLeaderboard]

RECURSIVE InsertDesc(_, _)
InsertDesc(x, s) ==
    IF s = <<>> THEN <<x>>
    ELSE IF x >= Head(s) THEN <<x>> \o s
    ELSE <<Head(s)>> \o InsertDesc(x, Tail(s))

\* sorted(l, reverse=True)
RECURSIVE SortedDesc(_)
SortedDesc(l) ==
    IF l = <<>> THEN <<>> ELSE InsertDesc(Head(l), SortedDesc(Tail(l)))

\* a cut that keeps the last n entries
Take_Last(l, n) == SubSeq(l, IF Len(l) < n THEN 1 ELSE Len(l) - n + 1, Len(l))

\* l[:n]
Take(l, n) == SubSeq(l, 1, IF Len(l) < n THEN Len(l) ELSE n)

\* the file after init_leaderboard(): written only when it does not exist
init_leaderboard(f) ==
    IF f.state = "missing" THEN Json(EmptyLeaderboard) ELSE f

\* load_leaderboard(): the mapping returned and the file left behind
load_leaderboard(f) ==
    IF f.state = "json"
    THEN [ret |-> f.lb, file |-> f]
    ELSE [ret |-> EmptyLeaderboard, file |-> init_leaderboard(f)]

\* WithScore with the sort forgotten: the new score is appended and the list cut
WithScore_Unsorted(lb, game_name, score) ==
    IF game_name \in DOMAIN lb
    THEN [lb EXCEPT ![game_name] = Take(Append(@, score), TopN)]
    ELSE [g \in DOMAIN lb \cup {game_name} |->
            IF g = game_name THEN <<score>> ELSE lb[g]]

\* leaderboard[game_name] after the if/else of add_score and update_leaderboard
WithScore(lb, game_name, score) ==
    IF game_name \in DOMAIN lb
    THEN [lb EXCEPT ![game_name] = Take(SortedDesc(Append(@, score)), TopN)]
    ELSE [g \in DOMAIN lb \cup {game_name} |->
            IF g = game_name THEN <<score>> ELSE lb[g]]

\* the file after add_score(game_name, score)
add_score(f, game_name, score) ==
    Json(WithScore(load_leaderboard(f).ret, game_name, score))

RECURSIVE MaxOf(_)
MaxOf(l) ==
    IF Len(l) = 1 THEN Head(l)
    ELSE LET m == MaxOf(Tail(l)) IN IF Head(l) >= m THEN Head(l) ELSE m

\* get_high_score(game_name): the value returned
get_high_score(f, game_name) ==
    LET lb == load_leaderboard(f).ret
        scores == IF game_name \in DOMAIN lb THEN lb[game_name] ELSE <<>>
    IN IF scores # <<>> THEN MaxOf(scores) ELSE 0

-----------------------------------------------------------------------------
(* The Score Store driven directly: any contents, any call *)

ScoreVals == (0 - 1)..MaxScoreVal

\* the descending lists of at most n scores drawn from S
RECURSIVE DescLists(_, _)
DescLists(S, n) ==
    IF n = 0 THEN {<<>>}
    ELSE LET shorter == DescLists(S, n - 1)
         IN shorter \cup {Append(p[1], p[2]) :
                            p \in {q \in shorter \X S :
                                     q[1] = <<>> \/ q[2] <= q[1][Len(q[1])]}}

\* a valid store: every known title, each with a descending list of up to TopN
ValidLists == DescLists(ScoreVals, TopN)

\* titles the store is called with: two known ones and one it has never seen
CallTitles == {"Snake", "Pong", "Galaga"}

NoCall == [op |-> "none", game |-> "none", score |-> 0, before |-> Missing,
           ret |-> EmptyLeaderboard, n |-> 0]

NoSession == [game_active |-> FALSE]
NoEvent == [terminal |-> FALSE, misses |-> 0, extra |-> 0, pause |-> FALSE]
NoHist == [sessions |-> 0, restarts |-> 0, gains |-> 0, activeMs |-> 0]

\* the variables the game loops own, at rest
Idle ==
    /\ pc = "launcher"
    /\ game = 0 - 1
    /\ ses = NoSession
    /\ now = 0
    /\ ev = NoEvent
    /\ hist = NoHist

StoreInit ==
    /\ Idle
    /\ file \in {Missing, Corrupt}
                \cup {Json([EmptyLeaderboard EXCEPT !["Snake"] = l]) :
                        l \in ValidLists}
    /\ last = NoCall

AddScore ==
    \E g \in CallTitles, s \in ScoreVals :
        /\ last.n < MaxAdds
        /\ file' = add_score(file, g, s)
        /\ last' = [op |-> "add_score", game |-> g, score |-> s,
                    before |-> file, ret |-> add_score(file, g, s).lb,
                    n |-> last.n + 1]
        /\ UNCHANGED <<pc, game, ses, now, ev, hist>>

LoadLeaderboard ==
    /\ last.op # "load_leaderboard"
    /\ file' = load_leaderboard(file).file
    /\ last' = [op |-> "load_leaderboard", game |-> "none", score |-> 0,
                before |-> file, ret |-> load_leaderboard(file).ret,
                n |-> last.n]
    /\ UNCHANGED <<pc, game, ses, now, ev, hist>>

StoreNext == AddScore \/ LoadLeaderboard

SpecStore == StoreInit /\ [][StoreNext]_vars

-----------------------------------------------------------------------------
(* The launcher: main.py *)

\* the file after ArcadeLauncher.update_leaderboard(game_name, score): a file that
\* cannot be opened or parsed raises inside the try, and nothing is written
update_leaderboard(f, game_name, score) ==
    IF f.state = "json" THEN Json(WithScore(f.lb, game_name, score)) ELSE f

\* the record of one Score Store call made from a game or from the launcher
Call(op, g, s, before, after, n) ==
    [op |-> op, game |-> g, score |-> s, before |-> before, ret |-> after.lb,
     n |-> n]

\* title the running game passes to add_score and get_high_score
Title == GAME_TITLES[game + 1]

\* launch_game after run_*_game returned score: update_leaderboard, back to the menu
ReturnToLauncher(score, f, lst) ==
    /\ pc' = "launcher"
    /\ file' = update_leaderboard(f, GAME_TITLES[game + 1], score)
    /\ last' = IF f.state = "json"
               THEN Call("update_leaderboard", GAME_TITLES[game + 1], score, f,
                         update_leaderboard(f, GAME_TITLES[game + 1], score),
                         lst.n + 1)
               ELSE lst

\* the game loop goes on: nothing is returned to the launcher
StayInGame(f, lst) ==
    /\ pc' = "game"
    /\ file' = f
    /\ last' = lst

\* the locals of a game at the end of a pass x of its loop: gone once it returns
Kept(s, x) == IF s.running THEN x ELSE NoSession

\* the end of one pass of a game's while loop: left when running is False
EndOfFrame(s, score, f, lst) ==
    IF s.running THEN StayInGame(f, lst) ELSE ReturnToLauncher(score, f, lst)

\* a pass in which nothing is simulated, the game being paused: the overlay
\* is drawn, and BACKSPACE held down returns the score to the launcher
PausedPass(s, score, backspace) ==
    /\ ses' = IF backspace THEN NoSession ELSE Kept(s, s)
    /\ ev' = NoEvent
    /\ hist' = hist
    /\ IF backspace THEN ReturnToLauncher(score, file, last)
       ELSE EndOfFrame(s, score, file, last)

\* add_score called from inside a game: the file and the call record after it
GameAdd(acc, title, score) ==
    [file |-> add_score(acc.file, title, score),
     last |-> Call("add_score", title, score, acc.file,
                   add_score(acc.file, title, score), acc.last.n + 1)]

\* keys of KEYDOWN events and the buttons a MOUSEBUTTONDOWN can land on
Keys == {"SPACE", "P", "ESCAPE", "RETURN", "UP", "DOWN", "LEFT", "RIGHT"}
Zones == {"start", "restart", "menu", "pause", "control", "one_player",
          "two_player", "difficulty", "elsewhere"}

PauseKey(k) == k \in {"P", "ESCAPE"}

\* a pause key that toggles the flag in every state
TogglePause_Always(s) == [s EXCEPT !.paused = ~@]

\* the pause branch of KEYDOWN: the flag is toggled if the game is active
TogglePause(s) == IF s.game_active THEN [s EXCEPT !.paused = ~@] ELSE s

\* the facts of an event: whether the key was a pause key, or the click was
\* on the pause button
KeyEvent(k) == [NoEvent EXCEPT !.pause = PauseKey(k)]

ClickEvent(z) == [NoEvent EXCEPT !.pause = (z = "pause")]

-----------------------------------------------------------------------------
(* Snake: games/snake/snake_game.py.  The grid is not carried here: whether  *)
(* the new head lands on the snake or on the food is an input of the tick.   *)

Directions == {<<0, 0 - 1>>, <<0, 1>>, <<0 - 1, 0>>, <<1, 0>>}

\* Snake.reset(), with direction the random.choice
SnakeReset(s, dir) ==
    [s EXCEPT !.direction = dir, !.score = 0, !.grow_to = 3, !.dead = FALSE,
              !.nseg = 1]

\* the locals of run_snake_game before its loop
SnakeStart(f, dir) ==
    [game_active |-> FALSE, game_over |-> FALSE, paused |-> FALSE,
     running |-> TRUE, high_score |-> get_high_score(f, "Snake"),
     score |-> 0, grow_to |-> 3, dead |-> FALSE, nseg |-> 1, direction |-> dir]

\* Snake.change_direction
change_direction(s, dir) ==
    IF dir # <<0 - s.direction[1], 0 - s.direction[2]>>
    THEN [s EXCEPT !.direction = dir] ELSE s

KeyDirection(k) ==
    CASE k = "UP" -> <<0, 0 - 1>>
      [] k = "DOWN" -> <<0, 1>>
      [] k = "LEFT" -> <<0 - 1, 0>>
      [] k = "RIGHT" -> <<1, 0>>

\* Snake.update: hit says the new head is a cell of the snake
SnakeUpdate(s, hit) ==
    IF s.dead THEN s
    ELSE IF hit THEN [s EXCEPT !.dead = TRUE]
    ELSE [s EXCEPT !.nseg = IF s.nseg + 1 > s.grow_to THEN s.grow_to
                             ELSE s.nseg + 1]

\* Snake.grow
SnakeGrow(s) == [s EXCEPT !.grow_to = @ + 1, !.score = @ + 10]

\* the KEYDOWN branch of run_snake_game
SnakeKey(k) ==
    LET s1 == IF ses.game_active /\ ~ses.paused
                 /\ k \in {"UP", "DOWN", "LEFT", "RIGHT"}
              THEN change_direction(ses, KeyDirection(k)) ELSE ses
        s2 == IF PauseKey(k) THEN TogglePause(s1) ELSE s1
    IN IF ~s2.game_active /\ k = "RETURN"
       THEN /\ hist.restarts < MaxRestarts \/ ~s2.game_over
            /\ \E dir \in Directions :
                 ses' = SnakeReset([s2 EXCEPT !.game_active = TRUE,
                                              !.game_over = FALSE], dir)
            /\ hist' = [hist EXCEPT !.restarts =
                                        IF s2.game_over THEN @ + 1 ELSE @]
            /\ ev' = NoEvent
       ELSE /\ ses' = s2
            /\ hist' = hist
            /\ ev' = KeyEvent(k)

SnakeKeyDown ==
    /\ pc = "game" /\ game = 0
    /\ \E k \in Keys \ {"SPACE"} : SnakeKey(k)
    /\ StayInGame(file, last)
    /\ UNCHANGED <<game, now>>

\* the MOUSEBUTTONDOWN branch of run_snake_game
SnakeClick ==
    /\ pc = "game" /\ game = 0
    /\ \E z \in {"start", "restart", "menu", "pause", "elsewhere"} :
         IF ~ses.game_active /\ ~ses.game_over
         THEN /\ ses' = IF z = "start" THEN [ses EXCEPT !.game_active = TRUE]
                        ELSE ses
              /\ ev' = ClickEvent(z)
              /\ hist' = hist
              /\ StayInGame(file, last)
         ELSE IF ses.game_over
         THEN IF z = "restart"
              THEN /\ hist.restarts < MaxRestarts
                   /\ \E dir \in Directions :
                        ses' = SnakeReset([ses EXCEPT !.game_active = TRUE,
                                                      !.game_over = FALSE], dir)
                   /\ hist' = [hist EXCEPT !.restarts = @ + 1]
                   /\ ev' = ClickEvent(z)
                   /\ StayInGame(file, last)
              ELSE IF z = "menu"
              THEN /\ ses' = NoSession
                   /\ hist' = hist
                   /\ ev' = ClickEvent(z)
                   /\ ReturnToLauncher(ses.score, file, last)
              ELSE /\ UNCHANGED <<ses, hist>>
                   /\ ev' = ClickEvent(z)
                   /\ StayInGame(file, last)
         ELSE /\ ses' = IF z = "pause" THEN [ses EXCEPT !.paused = ~@] ELSE ses
              /\ ev' = ClickEvent(z)
              /\ hist' = hist
              /\ StayInGame(file, last)
    /\ UNCHANGED <<game, now>>

\* the rest of one pass of the loop of run_snake_game, after the events, with
\* s the locals the events left: due says update_delay has elapsed, hit and
\* ate are the two cell tests, backspace says the key is held while the pause
\* overlay is drawn
SnakePass(s) ==
    /\ \E due, hit, ate, backspace \in BOOLEAN :
         IF ~s.game_active /\ ~s.game_over
         THEN /\ ses' = Kept(s, s)
              /\ ev' = NoEvent
              /\ hist' = hist
              /\ EndOfFrame(s, s.score, file, last)
         ELSE IF s.game_over
         THEN /\ ses' = Kept(s, IF s.score > s.high_score
                        THEN [s EXCEPT !.high_score = s.score] ELSE s)
              /\ ev' = NoEvent
              /\ hist' = hist
              /\ EndOfFrame(s, s.score, file, last)
         ELSE IF ~s.paused /\ due
         THEN LET s1 == SnakeUpdate(s, hit /\ s.nseg >= 2)
                  s2 == IF s1.dead
                        THEN [s1 EXCEPT !.game_active = FALSE,
                                        !.game_over = TRUE]
                        ELSE s1
                  acc == IF s1.dead
                         THEN GameAdd([file |-> file, last |-> last], "Snake",
                                      s1.score)
                         ELSE [file |-> file, last |-> last]
                  eats == ate /\ ~s1.dead
                  s3 == IF eats THEN SnakeGrow(s2) ELSE s2
                  gained == IF eats THEN 1 ELSE 0
              IN /\ hist.gains + gained <= MaxGains
                 /\ ses' = Kept(s3, s3)
                 /\ ev' = [terminal |-> s1.dead, misses |-> 0,
                           extra |-> 0, pause |-> FALSE]
                 /\ hist' = [hist EXCEPT !.gains = @ + gained]
                 /\ EndOfFrame(s3, s3.score, acc.file, acc.last)
         ELSE PausedPass(s, s.score, s.paused /\ backspace)

\* one pass of the loop of run_snake_game once its events are handled; quit
\* says a pygame.QUIT event was among them: running = False
SnakeFrame ==
    /\ pc = "game" /\ game = 0
    /\ \E quit \in BOOLEAN : SnakePass([ses EXCEPT !.running = ~quit])
    /\ UNCHANGED <<game, now>>

-----------------------------------------------------------------------------
(* Breakout: games/breakout/breakout_game.py.  Rectangles are not carried    *)
(* here: which brick the ball meets, whether the ball is lost and what each  *)
(* power-up does are inputs of the tick.  Ball.update with its rectangles is *)
(* modelled further down.                                                    *)

BRICK_ROWS == 2
BRICK_COLS == 1
PlayPaddle == 100

Min2(a, b) == IF a < b THEN a ELSE b
Max2(a, b) == IF a > b THEN a ELSE b

PowerUpTypes == {"expand", "shrink", "extra_life", "multi_ball"}
Outcomes == {"fall", "off", "caught"}

\* create_bricks: row by row, the points and the strength of each brick
create_bricks ==
    [i \in 1..(BRICK_ROWS * BRICK_COLS) |->
        [points |-> (BRICK_ROWS - ((i - 1) \div BRICK_COLS)) * 10,
         strength |-> IF (i - 1) \div BRICK_COLS < 2 THEN 2 ELSE 1]]

\* the locals of run_breakout_game before its loop
BreakoutStart(f) ==
    [game_active |-> FALSE, game_over |-> FALSE, paused |-> FALSE,
     running |-> TRUE, high_score |-> get_high_score(f, "Breakout"),
     score |-> 0, lives |-> 3, level |-> 1, attached |-> TRUE, bricks |-> create_bricks, powerups |-> <<>>,
     max_speed |-> 10, width |-> PlayPaddle]

\* Ball.launch
launch(s) == IF s.attached THEN [s EXCEPT !.attached = FALSE] ELSE s

\* the sequence without its i-th element
RemoveIndex(q, i) == [j \in 1..(Len(q) - 1) |-> IF j < i THEN q[j] ELSE q[j + 1]]

\* the brick loop of Ball.update when the first brick the ball overlaps is
\* the i-th (0: none): Brick.hit, removal of a broken brick, the score change
BallHit(bricks, i) ==
    IF i = 0 THEN [bricks |-> bricks, points |-> 0, broken |-> FALSE]
    ELSE IF bricks[i].strength - 1 <= 0
    THEN [bricks |-> RemoveIndex(bricks, i), points |-> bricks[i].points,
          broken |-> TRUE]
    ELSE [bricks |-> [bricks EXCEPT ![i].strength = @ - 1], points |-> 0,
          broken |-> FALSE]

\* the power-ups left after the power-up loop: those neither offscreen nor caught
RECURSIVE PowerUpsLeft(_, _, _)
PowerUpsLeft(ps, out, i) ==
    IF i > Len(ps) THEN <<>>
    ELSE (IF out[i] = "fall" THEN <<ps[i]>> ELSE <<>>)
         \o PowerUpsLeft(ps, out, i + 1)

\* paddle.width after a caught power-up of a type
CaughtWidth(width, type) ==
    CASE type = "expand" -> Min2(width + 20, 200)
      [] type = "shrink" -> Max2(width - 20, 40)
      [] OTHER -> width

\* paddle.width after the power-up loop, from the i-th power-up on
RECURSIVE WidthAfter(_, _, _, _)
WidthAfter(width, ps, out, i) ==
    IF i > Len(ps) THEN width
    ELSE WidthAfter(IF out[i] = "caught" THEN CaughtWidth(width, ps[i])
                    ELSE width, ps, out, i + 1)

\* the number of extra_life power-ups the paddle catches in the loop
ExtraLives(ps, out) ==
    Cardinality({i \in 1..Len(ps) : out[i] = "caught" /\ ps[i] = "extra_life"})

\* a lost ball that ends the game only once lives is below 0
BreakoutLost_Late(s) ==
    IF s.lives - 1 < 0
    THEN [s EXCEPT !.lives = @ - 1, !.game_active = FALSE, !.game_over = TRUE]
    ELSE [s EXCEPT !.lives = @ - 1, !.attached = TRUE]

\* the ball left the screen: a life is lost, the game ends or the ball is reset
BreakoutLost(s) ==
    IF s.lives - 1 <= 0
    THEN [s EXCEPT !.lives = @ - 1, !.game_active = FALSE, !.game_over = TRUE]
    ELSE [s EXCEPT !.lives = @ - 1, !.attached = TRUE]

\* a completed level that leaves the bricks and the paddle as they are
LevelComplete_NoGrid(s) ==
    IF s.bricks = <<>>
    THEN [s EXCEPT !.level = @ + 1, !.attached = TRUE,
                   !.max_speed = @ + 1,
                   !.score = @ + (s.level + 1) * 100]
    ELSE s

\* no brick is left: next level, ball back on the paddle, new bricks, a
\* faster ball (ball.max_speed), the paddle at its first width, bonus
LevelComplete(s) ==
    IF s.bricks = <<>>
    THEN [s EXCEPT !.level = @ + 1, !.attached = TRUE, !.bricks = create_bricks,
                   !.max_speed = @ + 1, !.width = PlayPaddle,
                   !.score = @ + (s.level + 1) * 100]
    ELSE s

\* the KEYDOWN branch of run_breakout_game
BreakoutKeyDown ==
    /\ pc = "game" /\ game = 2
    /\ \E k \in {"SPACE", "P", "ESCAPE", "RETURN"} :
         LET s1 == IF k = "SPACE" /\ ses.game_active /\ ses.attached
                   THEN launch(ses) ELSE ses
             s2 == IF PauseKey(k) THEN TogglePause(s1) ELSE s1
         IN /\ ses' = s2
            /\ ev' = KeyEvent(k)
    /\ StayInGame(file, last)
    /\ UNCHANGED <<game, now, hist>>

\* the MOUSEBUTTONDOWN branch of run_breakout_game; the control button only
\* switches the device the paddle follows, which the tick takes as its input
BreakoutClick ==
    /\ pc = "game" /\ game = 2
    /\ \E z \in {"start", "control", "restart", "menu", "pause", "elsewhere"} :
         IF ~ses.game_active /\ ~ses.game_over
         THEN /\ ses' = IF z = "start" THEN [ses EXCEPT !.game_active = TRUE]
                        ELSE ses
              /\ ev' = ClickEvent(z)
              /\ hist' = hist
              /\ StayInGame(file, last)
         ELSE IF ses.game_active /\ ses.attached
         THEN /\ ses' = launch(ses)
              /\ ev' = ClickEvent(z)
              /\ hist' = hist
              /\ StayInGame(file, last)
         ELSE IF ses.game_over
         THEN IF z = "restart"
              THEN /\ hist.restarts < MaxRestarts
                   /\ ses' = [ses EXCEPT !.game_active = TRUE,
                                         !.game_over = FALSE, !.score = 0,
                                         !.lives = 3, !.level = 1,
                                         !.bricks = create_bricks,
                                         !.attached = TRUE, !.powerups = <<>>]
                   /\ hist' = [hist EXCEPT !.restarts = @ + 1]
                   /\ ev' = ClickEvent(z)
                   /\ StayInGame(file, last)
              ELSE IF z = "menu"
              THEN /\ ses' = NoSession
                   /\ hist' = hist
                   /\ ev' = ClickEvent(z)
                   /\ ReturnToLauncher(ses.score, file, last)
              ELSE /\ UNCHANGED <<ses, hist>>
                   /\ ev' = ClickEvent(z)
                   /\ StayInGame(file, last)
         ELSE /\ ses' = IF z = "pause" THEN [ses EXCEPT !.paused = ~@] ELSE ses
              /\ ev' = ClickEvent(z)
              /\ hist' = hist
              /\ StayInGame(file, last)
    /\ UNCHANGED <<game, now>>

\* the active, unpaused tick of run_breakout_game: hit is the brick the ball
\* meets first (0: none), lost says the ball left the screen, spawn is the
\* power-up a broken brick releases, out[i] is what power-up i does
BreakoutTick(s, hit, lost, spawn, out) ==
    LET b == BallHit(s.bricks, hit)
        ps == IF spawn = "none" THEN s.powerups
              ELSE Append(s.powerups, spawn)
        s1 == [s EXCEPT !.bricks = b.bricks, !.score = @ + b.points,
                          !.powerups = PowerUpsLeft(ps, out, 1),
                          !.width = WidthAfter(@, ps, out, 1),
                          !.lives = @ + ExtraLives(ps, out)]
        s2 == IF lost THEN BreakoutLost(s1) ELSE s1
        acc == IF lost /\ s2.lives <= 0 /\ s2.score > s2.high_score
               THEN GameAdd([file |-> file, last |-> last], "Breakout",
                            s2.score)
               ELSE [file |-> file, last |-> last]
        s3 == LevelComplete(s2)
        gained == IF b.broken THEN 1 ELSE 0
    IN /\ hist.gains + gained <= MaxGains
       /\ ses' = Kept(s3, s3)
       /\ ev' = [terminal |-> lost /\ s2.lives <= 0,
                 misses |-> 0, extra |-> ExtraLives(ps, out),
                 pause |-> FALSE]
       /\ hist' = [hist EXCEPT !.gains = @ + gained]
       /\ EndOfFrame(s3, s3.score, acc.file, acc.last)

\* the rest of one pass of the loop of run_breakout_game, after the events,
\* with s the locals the events left
BreakoutPass(s) ==
    /\ IF ~s.game_active /\ ~s.game_over
       THEN /\ ses' = Kept(s, s)
            /\ ev' = NoEvent
            /\ hist' = hist
            /\ EndOfFrame(s, s.score, file, last)
       ELSE IF s.game_over
       THEN /\ ses' = Kept(s, s)
            /\ ev' = NoEvent
            /\ hist' = hist
            /\ EndOfFrame(s, s.score, file, last)
       ELSE IF ~s.paused
       THEN \E hit \in 0..Len(s.bricks), lost \in BOOLEAN,
               spawn \in {"none"} \cup PowerUpTypes :
              /\ s.attached => hit = 0 /\ ~lost
              /\ lost => hit = 0
              /\ spawn # "none" =>
                    /\ BallHit(s.bricks, hit).broken
                    /\ Len(s.powerups) < MaxPowerUps
              /\ \E out \in [1..(Len(s.powerups)
                                 + IF spawn = "none" THEN 0 ELSE 1)
                             -> Outcomes] :
                   /\ spawn # "none" => out[Len(s.powerups) + 1] = "fall"
                   /\ BreakoutTick(s, hit, lost, spawn, out)
       ELSE \E backspace \in BOOLEAN : PausedPass(s, s.score, backspace)

\* one pass of the loop of run_breakout_game once its events are handled; quit
\* says a pygame.QUIT event was among them: running = False
BreakoutFrame ==
    /\ pc = "game" /\ game = 2
    /\ \E quit \in BOOLEAN : BreakoutPass([ses EXCEPT !.running = ~quit])
    /\ UNCHANGED <<game, now>>

\* launch_game(2) up to the first pass of the game's loop
LaunchBreakout ==
    /\ pc = "launcher"
    /\ hist.sessions < MaxSessions
    /\ pc' = "game"
    /\ game' = 2
    /\ ses' = BreakoutStart(file)
    /\ file' = load_leaderboard(file).file
    /\ last' = [last EXCEPT !.n = 0]
    /\ ev' = NoEvent
    /\ hist' = [sessions |-> hist.sessions + 1, restarts |-> 0, gains |-> 0,
                activeMs |-> 0]
    /\ now' = now

-----------------------------------------------------------------------------
(* Space Shooter: games/shooter/shooter_game.py.  Rectangles are not carried *)
(* here: which bullets and enemies leave the screen and which overlap are    *)
(* inputs of the tick, and so are the running out of the shoot cooldown and  *)
(* of the invulnerability.  The collision loops with their rectangles are    *)
(* modelled further down.  now is pygame.time.get_ticks().                   *)

EnemyTypes == {"basic", "zigzag", "fast"}

\* Enemy.__init__: the points of an enemy of each type
EnemyPoints(type) ==
    CASE type = "zigzag" -> 15
      [] type = "fast" -> 20
      [] OTHER -> 10

\* the types the spawned enemies are drawn from in the runs
SpawnTypes == {"basic"}

WaveDuration == 20000

\* the locals of run_shooter_game before its loop, with the fields of Player
ShooterStart(f) ==
    [game_active |-> FALSE, game_over |-> FALSE, paused |-> FALSE,
     running |-> TRUE, high_score |-> get_high_score(f, "Space Shooter"),
     score |-> 0, wave |-> 1, enemy_count |-> 5, wave_start_time |-> 0,
     lives |-> 3, invulnerable |-> FALSE, bullets |-> 0, enemies |-> <<>>]

\* Player.shoot and the append of the bullet: ready says shoot_cooldown is 0
shoot(s, ready) == IF ready THEN [s EXCEPT !.bullets = @ + 1] ELSE s

\* the reset of the game on the game over screen, at time t
ShooterRestart(s, t) ==
    [s EXCEPT !.game_active = TRUE, !.game_over = FALSE, !.lives = 3,
              !.invulnerable = FALSE, !.bullets = 0, !.enemies = <<>>,
              !.score = 0, !.wave = 1, !.enemy_count = 5,
              !.wave_start_time = t]

\* a penalty that is taken from a score of 0 as well
MissPenalty_NoFloor(score) == score - 1

\* the penalty for one enemy that left the screen
MissPenalty(score) == IF score > 0 THEN score - 1 ELSE score

\* the penalty for k enemies, one after the other
RECURSIVE Misses(_, _)
Misses(score, k) == IF k = 0 THEN score ELSE Misses(MissPenalty(score), k - 1)

\* the elements of q whose index is not in S, in order
RECURSIVE Without(_, _, _)
Without(q, S, i) ==
    IF i > Len(q) THEN <<>>
    ELSE (IF i \in S THEN <<>> ELSE <<q[i]>>) \o Without(q, S, i + 1)

\* the points of the enemies of q whose index is in S
RECURSIVE PointsOf(_, _, _)
PointsOf(q, S, i) ==
    IF i > Len(q) THEN 0
    ELSE (IF i \in S THEN EnemyPoints(q[i]) ELSE 0) + PointsOf(q, S, i + 1)

\* the wave check of the tick, at time t
WaveCheck(s, t) ==
    IF t - s.wave_start_time > WaveDuration
    THEN [s EXCEPT !.wave = @ + 1, !.wave_start_time = t,
                   !.enemy_count = @ + 2, !.score = @ + (s.wave + 1) * 50]
    ELSE s

\* a player-enemy loop that ends the game while one life is left
PlayerHit_Early(s, i) ==
    IF i = 0 \/ s.invulnerable THEN s
    ELSE IF s.lives - 1 <= 1
    THEN [s EXCEPT !.lives = @ - 1, !.invulnerable = TRUE,
                   !.enemies = RemoveIndex(s.enemies, i),
                   !.game_active = FALSE, !.game_over = TRUE]
    ELSE [s EXCEPT !.lives = @ - 1, !.invulnerable = TRUE,
                   !.enemies = RemoveIndex(s.enemies, i)]

\* the player-enemy loop when the first enemy on the player is the i-th
\* (0: none): Player.get_hit, the removal of the enemy, the end of the game
PlayerHit(s, i) ==
    IF i = 0 \/ s.invulnerable THEN s
    ELSE IF s.lives - 1 <= 0
    THEN [s EXCEPT !.lives = @ - 1, !.invulnerable = TRUE,
                   !.enemies = RemoveIndex(s.enemies, i),
                   !.game_active = FALSE, !.game_over = TRUE]
    ELSE [s EXCEPT !.lives = @ - 1, !.invulnerable = TRUE,
                   !.enemies = RemoveIndex(s.enemies, i)]

\* the KEYDOWN branch of run_shooter_game
ShooterKeyDown ==
    /\ pc = "game" /\ game = 4
    /\ \E k \in {"SPACE", "P", "ESCAPE", "RETURN"} :
         IF k = "SPACE" /\ ses.game_active /\ ~ses.paused
         THEN /\ \E ready \in BOOLEAN :
                   /\ ready => ses.bullets < MaxBullets
                   /\ ses' = shoot(ses, ready)
              /\ ev' = NoEvent
              /\ hist' = hist
         ELSE IF k = "SPACE" /\ ~ses.game_active /\ ~ses.game_over
         THEN /\ ses' = [ses EXCEPT !.game_active = TRUE,
                                    !.wave_start_time = now]
              /\ ev' = NoEvent
              /\ hist' = [hist EXCEPT !.activeMs = 0]
         ELSE IF k = "SPACE" /\ ses.game_over
         THEN /\ hist.restarts < MaxRestarts
              /\ ses' = ShooterRestart(ses, now)
              /\ ev' = NoEvent
              /\ hist' = [hist EXCEPT !.restarts = @ + 1, !.activeMs = 0]
         ELSE /\ ses' = IF PauseKey(k) THEN TogglePause(ses) ELSE ses
              /\ ev' = KeyEvent(k)
              /\ hist' = hist
    /\ StayInGame(file, last)
    /\ UNCHANGED <<game, now>>

\* the MOUSEBUTTONDOWN branch of run_shooter_game, s1 the locals after the shot
ShooterButtons(s1, z) ==
    IF ~s1.game_active /\ ~s1.game_over
    THEN /\ ses' = IF z = "start"
                   THEN [s1 EXCEPT !.game_active = TRUE,
                                   !.wave_start_time = now]
                   ELSE s1
         /\ ev' = ClickEvent(z)
         /\ hist' = IF z = "start" THEN [hist EXCEPT !.activeMs = 0] ELSE hist
         /\ StayInGame(file, last)
    ELSE IF s1.game_over
    THEN IF z = "restart"
         THEN /\ hist.restarts < MaxRestarts
              /\ ses' = ShooterRestart(s1, now)
              /\ hist' = [hist EXCEPT !.restarts = @ + 1, !.activeMs = 0]
              /\ ev' = ClickEvent(z)
              /\ StayInGame(file, last)
         ELSE IF z = "menu"
         THEN /\ ses' = NoSession
              /\ hist' = hist
              /\ ev' = ClickEvent(z)
              /\ ReturnToLauncher(s1.score, file, last)
         ELSE /\ ses' = s1
              /\ hist' = hist
              /\ ev' = ClickEvent(z)
              /\ StayInGame(file, last)
    ELSE /\ ses' = IF z = "pause" THEN [s1 EXCEPT !.paused = ~@] ELSE s1
         /\ ev' = ClickEvent(z)
         /\ hist' = hist
         /\ StayInGame(file, last)

ShooterClick ==
    /\ pc = "game" /\ game = 4
    /\ \E z \in {"start", "restart", "menu", "pause", "elsewhere"} :
         IF ses.game_active /\ ~ses.paused
         THEN \E ready \in BOOLEAN :
                /\ ready => ses.bullets < MaxBullets
                /\ ShooterButtons(shoot(ses, ready), z)
         ELSE ShooterButtons(ses, z)
    /\ UNCHANGED <<game, now>>

\* the active, unpaused tick of run_shooter_game on the locals s: expired is
\* the running out of the invulnerability in Player.update, gone the number of
\* bullets that leave the screen, off the enemies that leave it, spawn the
\* type of the enemy created ("none": no enemy is due), kill the enemies that
\* bullets overlap and used the number of bullets that overlap one, touch the
\* first enemy on the player (0: none)
ShooterTick(s, expired, gone, off, spawn, kill, used, touch) ==
    LET e1 == Without(s.enemies, off, 1)
        e2 == IF spawn = "none" THEN e1 ELSE Append(e1, spawn)
        s2 == [s EXCEPT !.invulnerable = @ /\ ~expired,
                        !.bullets = @ - gone,
                        !.score = Misses(@, Cardinality(off)),
                        !.enemies = e2]
        s3 == WaveCheck(s2, now)
        s4 == [s3 EXCEPT !.score = @ + PointsOf(e2, kill, 1),
                         !.bullets = @ - used,
                         !.enemies = Without(e2, kill, 1)]
        s5 == PlayerHit(s4, touch)
        acc == IF s5.game_over /\ s5.score > s5.high_score
               THEN GameAdd([file |-> file, last |-> last], "Space Shooter",
                            s5.score)
               ELSE [file |-> file, last |-> last]
        gained == (IF s2.score # s.score THEN 1 ELSE 0)
                  + (IF s3.wave # s2.wave THEN 1 ELSE 0)
                  + (IF kill # {} THEN 1 ELSE 0)
    IN /\ hist.gains + gained <= MaxGains
       /\ ses' = Kept(s5, s5)
       /\ ev' = [terminal |-> s5.lives <= 0,
                 misses |-> Cardinality(off), extra |-> 0,
                 pause |-> FALSE]
       /\ hist' = [hist EXCEPT !.gains = @ + gained,
                               !.activeMs = IF s3.wave # s2.wave THEN 0 ELSE @]
       /\ EndOfFrame(s5, s5.score, acc.file, acc.last)

\* the numbers of enemies and bullets a tick is left with for its collisions
AfterMoves(s, gone, off, spawn) ==
    [enemies |-> Len(s.enemies) - Cardinality(off)
                 + (IF spawn = "none" THEN 0 ELSE 1),
     bullets |-> s.bullets - gone]

\* the rest of one pass of the loop of run_shooter_game, after the events,
\* with s the locals the events left; an enemy spawned in the tick starts above
\* the screen and cannot be on the player yet
ShooterPass(s) ==
    IF ~s.game_active /\ ~s.game_over
    THEN /\ ses' = Kept(s, s)
         /\ ev' = NoEvent
         /\ hist' = hist
         /\ EndOfFrame(s, s.score, file, last)
    ELSE IF s.game_over
    THEN /\ ses' = Kept(s, IF s.score > s.high_score
                   THEN [s EXCEPT !.high_score = s.score] ELSE s)
         /\ ev' = NoEvent
         /\ hist' = hist
         /\ EndOfFrame(s, s.score, file, last)
    ELSE IF ~s.paused
    THEN \E expired \in BOOLEAN, gone \in 0..s.bullets,
            off \in SUBSET (1..Len(s.enemies)),
            spawn \in {"none"} \cup SpawnTypes :
           /\ expired => s.invulnerable
           /\ spawn # "none" =>
                 /\ Len(s.enemies) - Cardinality(off) < s.enemy_count
                 /\ Len(s.enemies) - Cardinality(off) < MaxEnemies
           /\ \E kill \in SUBSET (1..AfterMoves(s, gone, off, spawn).enemies) :
                \E used \in 0..AfterMoves(s, gone, off, spawn).bullets,
                   touch \in 0..(AfterMoves(s, gone, off, spawn).enemies
                                 - Cardinality(kill)) :
                  /\ IF kill = {} THEN used = 0
                     ELSE used >= 1 /\ used <= Cardinality(kill)
                  /\ (spawn # "none"
                        /\ AfterMoves(s, gone, off, spawn).enemies \notin kill)
                       => touch < AfterMoves(s, gone, off, spawn).enemies
                                  - Cardinality(kill)
                  /\ ShooterTick(s, expired, gone, off, spawn, kill, used,
                                 touch)
    ELSE \E backspace \in BOOLEAN : PausedPass(s, s.score, backspace)

\* one pass of the loop of run_shooter_game once its events are handled; quit
\* says a pygame.QUIT event was among them: running = False
ShooterFrame ==
    /\ pc = "game" /\ game = 4
    /\ \E quit \in BOOLEAN : ShooterPass([ses EXCEPT !.running = ~quit])
    /\ UNCHANGED <<game, now>>

\* time passes while the game is played: pygame.time.get_ticks() grows between
\* two steps of the loop; the time on the start and game over screens only
\* shifts the timers, which are set from now when play starts
Clock ==
    /\ pc = "game" /\ game = 4
    /\ ses.game_active
    /\ now < MaxClock * ClockStep
    /\ now' = now + ClockStep
    /\ hist' = [hist EXCEPT !.activeMs =
                   IF ses.paused THEN @ ELSE @ + ClockStep]
    /\ UNCHANGED <<file, last, pc, game, ses, ev>>

\* launch_game(4) up to the first pass of the game's loop
LaunchShooter ==
    /\ pc = "launcher"
    /\ hist.sessions < MaxSessions
    /\ pc' = "game"
    /\ game' = 4
    /\ ses' = ShooterStart(file)
    /\ file' = load_leaderboard(file).file
    /\ last' = [last EXCEPT !.n = 0]
    /\ ev' = NoEvent
    /\ hist' = [sessions |-> hist.sessions + 1, restarts |-> 0, gains |-> 0,
                activeMs |-> 0]
    /\ now' = 0

-----------------------------------------------------------------------------
(* Pong: games/pong/pong_game.py.  Paddles and ball are not carried here:    *)
(* what Ball.update returns, having added the point itself, is an input.     *)

\* the locals of run_pong_game before its loop, with the paddles' scores
PongStart(f) ==
    [game_active |-> FALSE, game_over |-> FALSE, paused |-> FALSE,
     running |-> TRUE, high_score |-> get_high_score(f, "Pong"),
     player_mode |-> "single", ai_difficulty |-> 1, winning_score |-> 5,
     left_score |-> 0, right_score |-> 0]

\* the KEYDOWN branch of run_pong_game
PongKeyDown ==
    /\ pc = "game" /\ game = 1
    /\ \E k \in {"SPACE", "P", "ESCAPE"} :
         /\ ses' = IF PauseKey(k) THEN TogglePause(ses) ELSE ses
         /\ ev' = KeyEvent(k)
    /\ StayInGame(file, last)
    /\ UNCHANGED <<game, now, hist>>

\* the MOUSEBUTTONDOWN branch of run_pong_game; i is the difficulty button
PongClick ==
    /\ pc = "game" /\ game = 1
    /\ \E z \in {"one_player", "two_player", "difficulty", "start", "restart",
                 "menu", "pause", "elsewhere"}, i \in 0..2 :
       /\ ev' = ClickEvent(z)
       /\
         IF ~ses.game_active /\ ~ses.game_over
         THEN /\ ses' =
                   CASE z = "one_player" -> [ses EXCEPT !.player_mode = "single"]
                     [] z = "two_player" ->
                            [ses EXCEPT !.player_mode = "two_player"]
                     [] z = "difficulty" /\ ses.player_mode = "single" ->
                            [ses EXCEPT !.ai_difficulty = i]
                     [] z = "start" ->
                            [ses EXCEPT !.game_active = TRUE,
                                        !.left_score = 0, !.right_score = 0]
                     [] OTHER -> ses
              /\ hist' = hist
              /\ StayInGame(file, last)
         ELSE IF ses.game_over
         THEN IF z = "restart"
              THEN /\ hist.restarts < MaxRestarts
                   /\ ses' = [ses EXCEPT !.game_active = TRUE,
                                         !.game_over = FALSE,
                                         !.left_score = 0, !.right_score = 0]
                   /\ hist' = [hist EXCEPT !.restarts = @ + 1]
                   /\ StayInGame(file, last)
              ELSE IF z = "menu"
              THEN /\ ses' = NoSession
                   /\ hist' = hist
                   /\ ReturnToLauncher(ses.left_score, file, last)
              ELSE /\ UNCHANGED <<ses, hist>>
                   /\ StayInGame(file, last)
         ELSE /\ ses' = IF z = "pause" THEN [ses EXCEPT !.paused = ~@] ELSE ses
              /\ hist' = hist
              /\ StayInGame(file, last)
    /\ UNCHANGED <<game, now>>

\* a tick that ends the game once a score is above the winning score
PongTick_Late(s, result) ==
    LET s1 == CASE result = "left_score" -> [s EXCEPT !.left_score = @ + 1]
                [] result = "right_score" -> [s EXCEPT !.right_score = @ + 1]
                [] OTHER -> s
        over == /\ result # "none"
                /\ \/ s1.left_score > s1.winning_score
                   \/ s1.right_score > s1.winning_score
        adds == over /\ s1.left_score > s1.high_score
        s2 == IF over THEN [s1 EXCEPT !.game_active = FALSE, !.game_over = TRUE]
              ELSE s1
        s3 == IF adds THEN [s2 EXCEPT !.high_score = s1.left_score] ELSE s2
        acc == IF adds
               THEN GameAdd([file |-> file, last |-> last], "Pong",
                            s1.left_score)
               ELSE [file |-> file, last |-> last]
    IN /\ ses' = Kept(s3, s3)
       /\ ev' = [terminal |-> over, misses |-> 0, extra |-> 0,
                 pause |-> FALSE]
       /\ hist' = hist
       /\ EndOfFrame(s3, s3.left_score, acc.file, acc.last)

\* the active, unpaused tick of run_pong_game: result is what Ball.update
\* returns after adding the point to the paddle that scored
PongTick(s, result) ==
    LET s1 == CASE result = "left_score" -> [s EXCEPT !.left_score = @ + 1]
                [] result = "right_score" -> [s EXCEPT !.right_score = @ + 1]
                [] OTHER -> s
        over == /\ result # "none"
                /\ \/ s1.left_score >= s1.winning_score
                   \/ s1.right_score >= s1.winning_score
        adds == over /\ s1.left_score > s1.high_score
        s2 == IF over THEN [s1 EXCEPT !.game_active = FALSE, !.game_over = TRUE]
              ELSE s1
        s3 == IF adds THEN [s2 EXCEPT !.high_score = s1.left_score] ELSE s2
        acc == IF adds
               THEN GameAdd([file |-> file, last |-> last], "Pong",
                            s1.left_score)
               ELSE [file |-> file, last |-> last]
    IN /\ ses' = Kept(s3, s3)
       /\ ev' = [terminal |-> over, misses |-> 0, extra |-> 0,
                 pause |-> FALSE]
       /\ hist' = hist
       /\ EndOfFrame(s3, s3.left_score, acc.file, acc.last)

\* the rest of one pass of the loop of run_pong_game, after the events, with
\* s the locals the events left
PongPass(s) ==
    IF ~s.game_active /\ ~s.game_over
    THEN /\ ses' = Kept(s, s)
         /\ ev' = NoEvent
         /\ hist' = hist
         /\ EndOfFrame(s, s.left_score, file, last)
    ELSE IF s.game_over
    THEN /\ ses' = Kept(s, [s EXCEPT !.winning_score =
                                IF s.left_score >= s.winning_score
                                THEN s.left_score ELSE s.right_score])
         /\ ev' = NoEvent
         /\ hist' = hist
         /\ EndOfFrame(s, s.left_score, file, last)
    ELSE IF ~s.paused
    THEN \E result \in {"none", "left_score", "right_score"} :
           PongTick(s, result)
    ELSE \E backspace \in BOOLEAN : PausedPass(s, s.left_score, backspace)

\* one pass of the loop of run_pong_game once its events are handled; quit
\* says a pygame.QUIT event was among them: running = False
PongFrame ==
    /\ pc = "game" /\ game = 1
    /\ \E quit \in BOOLEAN : PongPass([ses EXCEPT !.running = ~quit])
    /\ UNCHANGED <<game, now>>

\* launch_game(1) up to the first pass of the game's loop
LaunchPong ==
    /\ pc = "launcher"
    /\ hist.sessions < MaxSessions
    /\ pc' = "game"
    /\ game' = 1
    /\ ses' = PongStart(file)
    /\ file' = load_leaderboard(file).file
    /\ last' = [last EXCEPT !.n = 0]
    /\ ev' = NoEvent
    /\ hist' = [sessions |-> hist.sessions + 1, restarts |-> 0, gains |-> 0,
                activeMs |-> 0]
    /\ now' = now

-----------------------------------------------------------------------------
(* Flappy Bird: games/flappy/flappy_game.py.  Rectangles are not carried     *)
(* here: of the bird only whether it is rising (velocity below 0), of a pipe *)
(* only its passed flag; what each pipe does in a tick is an input.          *)

PipeOutcomes == {"move", "off", "pass", "hit"}

\* the locals of run_flappy_game before its loop
FlappyStart(f) ==
    [game_active |-> FALSE, game_over |-> FALSE, paused |-> FALSE,
     running |-> TRUE, high_score |-> get_high_score(f, "Flappy Bird"),
     score |-> 0, rising |-> FALSE, pipes |-> <<>>]

\* Bird.flap
flap(s) == [s EXCEPT !.rising = TRUE]

\* the reset of the game on the game over screen
FlappyRestart(s) ==
    [s EXCEPT !.game_active = TRUE, !.game_over = FALSE, !.rising = FALSE,
              !.pipes = <<>>, !.score = 0]

\* the KEYDOWN branch of run_flappy_game
FlappyKeyDown ==
    /\ pc = "game" /\ game = 3
    /\ \E k \in {"SPACE", "P", "ESCAPE", "RETURN"} :
      /\ ev' = KeyEvent(k)
      /\
         IF k = "SPACE" /\ ses.game_active /\ ~ses.paused
         THEN ses' = flap(ses) /\ hist' = hist
         ELSE IF k = "SPACE" /\ ~ses.game_active /\ ~ses.game_over
         THEN ses' = [ses EXCEPT !.game_active = TRUE] /\ hist' = hist
         ELSE IF k = "SPACE" /\ ses.game_over
         THEN /\ hist.restarts < MaxRestarts
              /\ ses' = FlappyRestart(ses)
              /\ hist' = [hist EXCEPT !.restarts = @ + 1]
         ELSE /\ ses' = IF PauseKey(k) THEN TogglePause(ses) ELSE ses
              /\ hist' = hist
    /\ StayInGame(file, last)
    /\ UNCHANGED <<game, now>>

\* the MOUSEBUTTONDOWN branch of run_flappy_game
FlappyClick ==
    /\ pc = "game" /\ game = 3
    /\ \E z \in {"start", "restart", "menu", "pause", "elsewhere"} :
       /\ ev' = ClickEvent(z)
       /\
         LET s1 == IF ses.game_active /\ ~ses.paused THEN flap(ses) ELSE ses
         IN IF ~s1.game_active /\ ~s1.game_over
            THEN /\ ses' = IF z = "start"
                           THEN [s1 EXCEPT !.game_active = TRUE] ELSE s1
                 /\ hist' = hist
                 /\ StayInGame(file, last)
            ELSE IF s1.game_over
            THEN IF z = "restart"
                 THEN /\ hist.restarts < MaxRestarts
                      /\ ses' = FlappyRestart(s1)
                      /\ hist' = [hist EXCEPT !.restarts = @ + 1]
                      /\ StayInGame(file, last)
                 ELSE IF z = "menu"
                 THEN /\ ses' = NoSession
                      /\ hist' = hist
                      /\ ReturnToLauncher(s1.score, file, last)
                 ELSE /\ ses' = s1
                      /\ hist' = hist
                      /\ StayInGame(file, last)
            ELSE /\ ses' = IF z = "pause" THEN [s1 EXCEPT !.paused = ~@]
                           ELSE s1
                 /\ hist' = hist
                 /\ StayInGame(file, last)
    /\ UNCHANGED <<game, now>>

\* the end of the game in run_flappy_game: the flags, and add_score when the
\* score beats the high score read at the start; a is the locals with the
\* store and its call record
FlappyOver(a) ==
    LET s1 == [a.s EXCEPT !.game_active = FALSE, !.game_over = TRUE]
    IN IF s1.score > s1.high_score
       THEN [s |-> s1] @@ GameAdd(a, "Flappy Bird", s1.score)
       ELSE [a EXCEPT !.s = s1]

\* the pipe loop of the tick from the i-th pipe of ps on: out[i] says whether
\* the pipe leaves the screen, is passed by the bird, or is hit by it
RECURSIVE PipeLoop(_, _, _, _)
PipeLoop(a, ps, out, i) ==
    IF i > Len(ps) THEN a
    ELSE LET keeps == out[i] # "off"
             passes == ~ps[i] /\ out[i] \in {"off", "pass"}
             s1 == [a.s EXCEPT
                      !.pipes = IF keeps THEN Append(@, ps[i] \/ passes) ELSE @,
                      !.score = IF passes THEN @ + 1 ELSE @]
             a1 == [a EXCEPT !.s = s1]
         IN PipeLoop(IF out[i] = "hit" THEN FlappyOver(a1) ELSE a1,
                     ps, out, i + 1)

\* the number of pipes the bird passes in the loop
Passes(ps, out) ==
    Cardinality({i \in 1..Len(ps) : ~ps[i] /\ out[i] \in {"off", "pass"}})

\* the active, unpaused tick of run_flappy_game: falls says gravity has
\* stopped the rise, spawn that a pipe is due, ground that the bird is down
FlappyTick(s, falls, spawn, out, ground) ==
    LET ps == IF spawn THEN Append(s.pipes, FALSE) ELSE s.pipes
        a0 == [s |-> [s EXCEPT !.rising = @ /\ ~falls, !.pipes = <<>>],
               file |-> file, last |-> last]
        a1 == PipeLoop(a0, ps, out, 1)
        a2 == IF ground THEN FlappyOver(a1) ELSE a1
    IN /\ hist.gains + Passes(ps, out) <= MaxGains
       /\ ses' = Kept(a2.s, a2.s)
       /\ ev' = [terminal |-> ground \/ \E i \in 1..Len(ps) : out[i] = "hit",
                 misses |-> 0, extra |-> 0, pause |-> FALSE]
       /\ hist' = [hist EXCEPT !.gains = @ + Passes(ps, out)]
       /\ EndOfFrame(a2.s, a2.s.score, a2.file, a2.last)

\* the rest of one pass of the loop of run_flappy_game, after the events,
\* with s the locals the events left
FlappyPass(s) ==
    IF ~s.game_active /\ ~s.game_over
    THEN /\ ses' = Kept(s, s)
         /\ ev' = NoEvent
         /\ hist' = hist
         /\ EndOfFrame(s, s.score, file, last)
    ELSE IF s.game_over
    THEN /\ ses' = Kept(s, IF s.score > s.high_score
                           THEN [s EXCEPT !.high_score = s.score] ELSE s)
         /\ ev' = NoEvent
         /\ hist' = hist
         /\ EndOfFrame(s, s.score, file, last)
    ELSE IF ~s.paused
    THEN \E falls, spawn, ground \in BOOLEAN :
           /\ falls => s.rising
           /\ spawn => Len(s.pipes) < MaxPipes
           /\ \E out \in [1..(Len(s.pipes) + IF spawn THEN 1 ELSE 0)
                          -> PipeOutcomes] :
                /\ \A i \in DOMAIN out :
                     out[i] = "pass" /\ i <= Len(s.pipes) => ~s.pipes[i]
                /\ spawn => out[Len(s.pipes) + 1] = "move"
                /\ FlappyTick(s, falls, spawn, out, ground)
    ELSE \E backspace \in BOOLEAN : PausedPass(s, s.score, backspace)

\* one pass of the loop of run_flappy_game once its events are handled; quit
\* says a pygame.QUIT event was among them: running = False
FlappyFrame ==
    /\ pc = "game" /\ game = 3
    /\ \E quit \in BOOLEAN : FlappyPass([ses EXCEPT !.running = ~quit])
    /\ UNCHANGED <<game, now>>

\* launch_game(3) up to the first pass of the game's loop
LaunchFlappy ==
    /\ pc = "launcher"
    /\ hist.sessions < MaxSessions
    /\ pc' = "game"
    /\ game' = 3
    /\ ses' = FlappyStart(file)
    /\ file' = load_leaderboard(file).file
    /\ last' = [last EXCEPT !.n = 0]
    /\ ev' = NoEvent
    /\ hist' = [sessions |-> hist.sessions + 1, restarts |-> 0, gains |-> 0,
                activeMs |-> 0]
    /\ now' = now

-----------------------------------------------------------------------------
(* launch_game *)

\* launch_game(game_index) up to the first pass of the game's loop
LaunchSnake ==
    /\ pc = "launcher"
    /\ hist.sessions < MaxSessions
    /\ pc' = "game"
    /\ game' = 0
    /\ \E dir \in Directions : ses' = SnakeStart(file, dir)
    /\ file' = load_leaderboard(file).file
    /\ last' = [last EXCEPT !.n = 0]
    /\ ev' = NoEvent
    /\ hist' = [sessions |-> hist.sessions + 1, restarts |-> 0, gains |-> 0,
                activeMs |-> 0]
    /\ now' = now

\* a store left by earlier play: one score for each of the five games
PriorLeaderboard ==
    [g \in TitleSet |->
        IF \E i \in 1..5 : GAME_TITLES[i] = g THEN <<PriorHigh>> ELSE <<>>]

\* ArcadeLauncher.__init__ has run init_leaderboard()
Init ==
    /\ Idle
    /\ file \in {init_leaderboard(Missing), init_leaderboard(Corrupt),
                  init_leaderboard(Json(PriorLeaderboard))}
    /\ last = NoCall

Next ==
    \/ LaunchSnake
    \/ LaunchBreakout
    \/ BreakoutKeyDown
    \/ BreakoutClick
    \/ BreakoutFrame
    \/ LaunchPong
    \/ PongKeyDown
    \/ PongClick
    \/ PongFrame
    \/ LaunchFlappy
    \/ FlappyKeyDown
    \/ FlappyClick
    \/ FlappyFrame
    \/ LaunchShooter
    \/ ShooterKeyDown
    \/ ShooterClick
    \/ ShooterFrame
    \/ Clock
    \/ SnakeKeyDown
    \/ SnakeClick
    \/ SnakeFrame

Spec == Init /\ [][Next]_vars

-----------------------------------------------------------------------------
(* Ball.update of Breakout with its rectangles.  Lengths are pixels; the     *)
(* velocities, floats in the source, are kept in units of 1/VScale pixel.    *)
(* Under SpecBall ses holds the ball, the paddle and the bricks, and ev the  *)
(* facts of the last call.                                                   *)

SCREEN_WIDTH == 16
SCREEN_HEIGHT == 110
BRICK_HEIGHT == 2
BALL_RADIUS == 4
PADDLE_WIDTH_BREAKOUT == 8
VScale == 10000

Abs(v) == IF v < 0 THEN 0 - v ELSE v

\* pygame.Rect and the attributes the code reads
Rect(x, y, w, h) == [x |-> x, y |-> y, w |-> w, h |-> h]
right(r) == r.x + r.w
bottom(r) == r.y + r.h
centerx(r) == r.x + (r.w \div 2)

\* Rect.colliderect: the rectangles overlap, touching edges do not
colliderect(a, b) ==
    /\ a.x < b.x + b.w
    /\ a.y < b.y + b.h
    /\ a.x + a.w > b.x
    /\ a.y + a.h > b.y

\* the pixels of a length given in 1/VScale, cut towards 0 as Rect stores it
Pixels(v) == IF v >= 0 THEN v \div VScale ELSE 0 - ((0 - v) \div VScale)

\* rect.x += dx: the sum is cut to an integer
Moved(p, v) == Pixels(p * VScale + v)

\* create_bricks: the rectangle of the brick in a row and a column
BrickRect(row, col) ==
    LET brick_width == (SCREEN_WIDTH - 5 * (BRICK_COLS + 1)) \div BRICK_COLS
    IN Rect(5 + col * (brick_width + 5), 50 + row * (BRICK_HEIGHT + 5),
            brick_width, BRICK_HEIGHT)

\* create_bricks with the rectangles
BrickLayout ==
    [i \in 1..(BRICK_ROWS * BRICK_COLS) |->
        [rect |-> BrickRect((i - 1) \div BRICK_COLS, (i - 1) % BRICK_COLS),
         points |-> create_bricks[i].points,
         strength |-> create_bricks[i].strength]]

\* Paddle.__init__
NewPaddle ==
    [rect |-> Rect(SCREEN_WIDTH \div 2 - PADDLE_WIDTH_BREAKOUT \div 2,
                   SCREEN_HEIGHT - 40, PADDLE_WIDTH_BREAKOUT, 15)]

\* the ball sitting on the paddle: centerx and bottom are set
OnPaddle(b, paddle) ==
    [b EXCEPT !.rect.x = centerx(paddle.rect) - (b.rect.w \div 2),
              !.rect.y = paddle.rect.y - b.rect.h]

\* the wall checks of Ball.update; r1 and r2 are the random.uniform draws
WallBounce(b, r1, r2) ==
    LET b1 == IF b.rect.x <= 0 \/ right(b.rect) >= SCREEN_WIDTH
              THEN [b EXCEPT !.dx = 0 - @, !.dy = @ + r1] ELSE b
    IN IF b1.rect.y <= 0 THEN [b1 EXCEPT !.dy = 0 - @, !.dx = @ + r2] ELSE b1

\* a paddle check that only turns the ball upward
PaddleBounce_Flat(b, paddle) ==
    IF colliderect(b.rect, paddle.rect) /\ b.dy > 0
    THEN [b EXCEPT !.dy = 0 - Abs(b.dy)]
    ELSE b

\* the paddle check of Ball.update
PaddleBounce(b, paddle) ==
    IF colliderect(b.rect, paddle.rect) /\ b.dy > 0
    THEN LET off == centerx(b.rect) - centerx(paddle.rect)
             ndx == IF off >= 0
                    THEN (off * 2 * 7 * VScale) \div paddle.rect.w
                    ELSE 0 - (((0 - off) * 2 * 7 * VScale) \div paddle.rect.w)
             ndy == 0 - Abs(b.dy)
         IN [b EXCEPT !.dx = ndx,
                      !.dy = IF Abs(ndy) < 3 * VScale THEN 0 - 3 * VScale
                             ELSE ndy]
    ELSE b

\* the limit on both components
SpeedLimit(b) ==
    [b EXCEPT !.dx = Max2(Min2(@, b.max_speed), 0 - b.max_speed),
              !.dy = Max2(Min2(@, b.max_speed), 0 - b.max_speed)]

\* a bounce off a brick that turns the ball round
BrickBounce_Both(b, brick, prev) == [b EXCEPT !.dx = 0 - @, !.dy = 0 - @]

\* the bounce off a brick: the side is told from the position before the move
BrickBounce(b, brick, prev) ==
    LET dx_entry == IF b.dx > 0 THEN brick.rect.x - (prev.x + b.rect.w)
                    ELSE prev.x - right(brick.rect)
        dy_entry == IF b.dy > 0 THEN brick.rect.y - (prev.y + b.rect.h)
                    ELSE prev.y - bottom(brick.rect)
    IN IF Abs(dx_entry) < Abs(dy_entry) THEN [b EXCEPT !.dx = 0 - @]
       ELSE [b EXCEPT !.dy = 0 - @]

\* the bricks of the list that the ball overlaps
Overlapped(r, bricks) == {i \in 1..Len(bricks) : colliderect(r, bricks[i].rect)}

\* a brick loop that goes on after a collision
Struck_All(r, bricks) == Overlapped(r, bricks)

\* the bricks the brick loop handles: it breaks after the first it finds
Struck(r, bricks) ==
    IF Overlapped(r, bricks) = {} THEN {}
    ELSE {CHOOSE i \in Overlapped(r, bricks) :
            \A j \in Overlapped(r, bricks) : i <= j}

\* a Brick.hit that counts the brick as broken one hit early
Brick_hit_Early(brick) ==
    [brick |-> [brick EXCEPT !.strength = @ - 1],
     broken |-> brick.strength - 1 <= 1, points |-> brick.points]

\* Brick.hit: the brick after the hit and the pair the method returns
Brick_hit(brick) ==
    [brick |-> [brick EXCEPT !.strength = @ - 1],
     broken |-> brick.strength - 1 <= 0, points |-> brick.points]

\* the body of the brick loop for the bricks in S, from the i-th on: a is the
\* ball with the bricks kept so far, the score change, the broken bricks and
\* what Brick.hit returned for each brick that was hit
RECURSIVE BrickLoop(_, _, _, _, _)
BrickLoop(a, bricks, prev, S, i) ==
    IF i > Len(bricks) THEN a
    ELSE IF i \notin S
    THEN BrickLoop([a EXCEPT !.bricks = Append(@, bricks[i])],
                   bricks, prev, S, i + 1)
    ELSE LET r == Brick_hit(bricks[i])
             broken == r.broken
             hit == r.brick
         IN BrickLoop(
              [ball |-> BrickBounce(a.ball, bricks[i], prev),
               bricks |-> IF broken THEN a.bricks ELSE Append(a.bricks, hit),
               points |-> IF broken THEN a.points + r.points ELSE a.points,
               broken |-> IF broken THEN Append(a.broken, hit) ELSE a.broken,
               reports |-> Append(a.reports,
                                  [rect |-> bricks[i].rect, broken |-> r.broken,
                                   points |-> r.points])],
              bricks, prev, S, i + 1)

\* the speed-up at the end of Ball.update: times 1 + speed_increase / 100
SpeedUp(v) ==
    IF v >= 0 THEN (v * 10005) \div 10000 ELSE 0 - (((0 - v) * 10005) \div 10000)

\* the part of Ball.update before the brick loop: the move, the walls, the
\* paddle and the limit
BeforeBricks(b, paddle, r1, r2) ==
    LET b1 == [b EXCEPT !.rect.x = Moved(@, b.dx),
                        !.rect.y = Moved(@, b.dy)]
    IN SpeedLimit(PaddleBounce(WallBounce(b1, r1, r2), paddle))

\* Ball.update(paddle, bricks): the ball, the bricks, the score change and
\* the broken bricks after the call
BallUpdate(b, paddle, bricks, r1, r2) ==
    IF b.attached
    THEN [ball |-> OnPaddle(b, paddle), bricks |-> bricks, points |-> 0,
          broken |-> <<>>, reports |-> <<>>]
    ELSE LET prev == b.rect
             b2 == BeforeBricks(b, paddle, r1, r2)
             a == BrickLoop([ball |-> b2, bricks |-> <<>>, points |-> 0,
                             broken |-> <<>>, reports |-> <<>>],
                            bricks, prev, Struck(b2.rect, bricks), 1)
         IN [a EXCEPT !.ball.dx = SpeedUp(@), !.ball.dy = SpeedUp(@)]

\* Ball.__init__ with the rectangle at x, y and the signs of the velocity
NewBall(x, y, sx, sy) ==
    [rect |-> Rect(x, y, BALL_RADIUS * 2, BALL_RADIUS * 2),
     dx |-> sx * 5 * VScale, dy |-> sy * 5 * VScale,
     max_speed |-> 10 * VScale, attached |-> FALSE]

\* the lists of bricks met in play: each brick whole, hit once or gone
RECURSIVE Layouts(_)
Layouts(n) ==
    IF n = 0 THEN {<<>>}
    ELSE LET shorter == Layouts(n - 1)
         IN shorter
            \cup {Append(q, b) : q \in shorter,
                    b \in {[BrickLayout[n] EXCEPT !.strength = k] :
                             k \in 1..BrickLayout[n].strength}}

RandomDraws == {0 - 3000, 0, 3000}

NoCallYet ==
    [before |-> <<>>, attached |-> FALSE, moved |-> Rect(0, 0, 0, 0),
     points |-> 0, broken |-> <<>>, log |-> <<>>, total |-> 0,
     ball |-> NewBall(0, 0, 1, 1), met |-> [dx |-> 0, dy |-> 0]]

\* the ball anywhere over the bricks, or on the paddle, before a call
BallInit ==
    /\ pc = "ball"
    /\ game = 2
    /\ now = 0
    /\ file = Missing
    /\ last = NoCall
    /\ hist = NoHist
    /\ ev = NoCallYet
    /\ \E x \in 0..(SCREEN_WIDTH - 2 * BALL_RADIUS), y \in BallTop..BallBottom,
          sx \in {0 - 1, 1}, sy \in {0 - 1, 1}, at \in BOOLEAN,
          bs \in Layouts(BRICK_ROWS * BRICK_COLS) :
         /\ at => x = 0 /\ y = BallTop /\ sy = 0 - 1
         /\ ses = [ball |-> IF at
                            THEN [OnPaddle(NewBall(x, y, sx, sy), NewPaddle)
                                    EXCEPT !.attached = TRUE]
                            ELSE NewBall(x, y, sx, sy),
                   paddle |-> NewPaddle, bricks |-> bs]

\* one call of Ball.update from the tick; now counts the calls, ev.log keeps
\* what Brick.hit returned in the calls so far, ev.total the points added and
\* ev.met the velocity the ball came to the brick loop with
UpdateBall ==
    /\ pc = "ball"
    /\ now < MaxCalls
    /\ \E r1, r2 \in RandomDraws :
         LET a == BallUpdate(ses.ball, ses.paddle, ses.bricks, r1, r2)
             m == BeforeBricks(ses.ball, ses.paddle, r1, r2)
         IN /\ ses' = [ses EXCEPT !.ball = a.ball, !.bricks = a.bricks]
            /\ ev' = [before |-> ses.bricks,
                      attached |-> ses.ball.attached,
                      moved |-> [ses.ball.rect EXCEPT
                                   !.x = Moved(@, ses.ball.dx),
                                   !.y = Moved(@, ses.ball.dy)],
                      points |-> a.points, broken |-> a.broken,
                      log |-> ev.log \o a.reports,
                      total |-> ev.total + a.points,
                      ball |-> ses.ball,
                      met |-> [dx |-> m.dx, dy |-> m.dy]]
    /\ now' = now + 1
    /\ UNCHANGED <<file, last, pc, game, hist>>

\* Ball.launch on SPACE or a click
LaunchBall ==
    /\ pc = "ball"
    /\ ses.ball.attached
    /\ ses' = [ses EXCEPT !.ball = launch(@)]
    /\ UNCHANGED <<file, last, pc, game, now, ev, hist>>

BallNext == UpdateBall \/ LaunchBall

SpecBall == BallInit /\ [][BallNext]_vars

-----------------------------------------------------------------------------
(* The bullets and the enemies of the Space Shooter with their rectangles:   *)
(* the updates and the collision loops of the tick.  Under SpecHits ses      *)
(* holds the score and the two lists, and ev the facts of the last tick.     *)

BULLET_SIZE == 1
BULLET_SPEED == 2
ENEMY_SIZE == 4

\* Bullet.__init__ at the point x, y
NewBullet(x, y) ==
    [rect |-> Rect(x - BULLET_SIZE, y - BULLET_SIZE, BULLET_SIZE * 2,
                   BULLET_SIZE * 2)]

\* Enemy.__init__: an enemy of a type at x, moved down to y, with the whole
\* pixels its speed moves it in a tick; a fast enemy is smaller
NewEnemy(x, y, type, speed) ==
    LET size == IF type = "fast" THEN (ENEMY_SIZE * 8) \div 10 ELSE ENEMY_SIZE
    IN [rect |-> Rect(x, y, size, size), type |-> type, speed |-> speed,
        points |-> EnemyPoints(type)]

\* Bullet.update
BulletUpdate(b) == [b EXCEPT !.rect.y = @ - BULLET_SPEED]
BulletOff(b) == bottom(b.rect) < 0

\* Enemy.update of an enemy that is not a zigzag one
EnemyUpdate(e) == [e EXCEPT !.rect.y = @ + e.speed]
EnemyOff(e) == e.rect.y > SCREEN_HEIGHT

\* the update loop over the bullets
UpdateBullets(bullets) ==
    LET moved == [i \in 1..Len(bullets) |-> BulletUpdate(bullets[i])]
    IN Without(moved, {i \in 1..Len(moved) : BulletOff(moved[i])}, 1)

\* the update loop over the enemies, with the penalty for those that left
UpdateEnemies(s) ==
    LET moved == [i \in 1..Len(s.enemies) |-> EnemyUpdate(s.enemies[i])]
        off == {i \in 1..Len(moved) : EnemyOff(moved[i])}
    IN [s EXCEPT !.enemies = Without(moved, off, 1),
                 !.score = Misses(@, Cardinality(off))]

\* the inner loop for the bullet b over the enemies in copy, from the j-th of
\* the list E on: a holds the score, the indices removed from both lists and
\* the enemies each bullet removed
RECURSIVE EnemyLoop(_, _, _, _, _, _)
EnemyLoop(a, B, E, b, copy, j) ==
    IF j > Len(E) THEN a
    ELSE IF j \in copy /\ colliderect(B[b].rect, E[j].rect)
    THEN EnemyLoop([score |-> a.score + E[j].points,
                    bullets |-> a.bullets \cup {b},
                    enemies |-> a.enemies \cup {j},
                    kills |-> [a.kills EXCEPT ![b] = @ \cup {j}]],
                   B, E, b, copy, j + 1)
    ELSE EnemyLoop(a, B, E, b, copy, j + 1)

\* the outer loop over the copy of the bullets, from the b-th on; the copy of
\* the enemies is taken when the inner loop starts
RECURSIVE BulletLoop(_, _, _, _)
BulletLoop(a, B, E, b) ==
    IF b > Len(B) THEN a
    ELSE BulletLoop(EnemyLoop(a, B, E, b, (1..Len(E)) \ a.enemies, 1),
                    B, E, b + 1)

\* the bullet-enemy collisions of the tick on the lists B and E
Collisions(score, B, E) ==
    BulletLoop([score |-> score, bullets |-> {}, enemies |-> {},
                kills |-> [b \in 1..Len(B) |-> {}]], B, E, 1)

\* the sequences of at most n elements of S
RECURSIVE UpTo(_, _)
UpTo(S, n) ==
    IF n = 0 THEN {<<>>}
    ELSE UpTo(S, n - 1) \cup {Append(q, x) : q \in UpTo(S, n - 1), x \in S}

SceneBullets ==
    {NewBullet(x, y) : x \in {2, 4, 8}, y \in {0, 7}}

SceneEnemies ==
    {NewEnemy(x, y, t, v) : x \in {0, 2, 6}, y \in {0, SCREEN_HEIGHT},
                            t \in {"basic", "fast"}, v \in {1}}

NoTickYet == [score |-> 0, bullets |-> <<>>, enemies |-> <<>>, kills |-> <<>>]

\* some bullets in flight and some enemies on their way down
HitsInit ==
    /\ pc = "hits"
    /\ game = 4
    /\ now = 0
    /\ file = Missing
    /\ last = NoCall
    /\ hist = NoHist
    /\ ev = NoTickYet
    /\ \E bs \in UpTo(SceneBullets, MaxShots), es \in UpTo(SceneEnemies, MaxFoes) :
         ses = [score |-> 0, bullets |-> bs, enemies |-> es]

\* the bullets, the enemies and their collisions in one tick; now counts the
\* ticks
HitsTick ==
    /\ pc = "hits"
    /\ now < MaxTicks
    /\ LET B == UpdateBullets(ses.bullets)
           s1 == UpdateEnemies(ses)
           a == Collisions(s1.score, B, s1.enemies)
       IN /\ ses' = [score |-> a.score,
                     bullets |-> Without(B, a.bullets, 1),
                     enemies |-> Without(s1.enemies, a.enemies, 1)]
          /\ ev' = [score |-> s1.score, bullets |-> B, enemies |-> s1.enemies,
                    kills |-> a.kills]
    /\ now' = now + 1
    /\ UNCHANGED <<file, last, pc, game, hist>>

\* the player shoots between two ticks: a bullet at the top of the ship
HitsShoot ==
    /\ pc = "hits"
    /\ now < MaxTicks
    /\ Len(ses.bullets) < MaxShots
    /\ \E x \in {2, 4, 8} :
         ses' = [ses EXCEPT !.bullets = Append(@, NewBullet(x, 7))]
    /\ UNCHANGED <<file, last, pc, game, now, ev, hist>>

HitsNext == HitsTick \/ HitsShoot

SpecHits == HitsInit /\ [][HitsNext]_vars

-----------------------------------------------------------------------------
(* The snake of Snake with its cells: Snake.update, the keys and the tick.   *)
(* Under SpecSnake ses holds the snake, the food and the session flags, and  *)
(* ev the facts of the last tick.                                            *)

SNAKE_GRID_SIZE == 1

\* the cells Food.reset is seen to draw in the runs, around the start cell
FoodCells ==
    {<<SCREEN_WIDTH \div 2, SCREEN_HEIGHT \div 2 - 1>>,
     <<SCREEN_WIDTH \div 2 + 1, SCREEN_HEIGHT \div 2>>,
     <<SCREEN_WIDTH \div 2 - 1, SCREEN_HEIGHT \div 2 + 1>>,
     <<SCREEN_WIDTH - 1, 0>>, <<0, 0>>}

\* Snake.reset with the direction drawn
ResetCells(s, dir) ==
    [s EXCEPT !.positions = <<<<SCREEN_WIDTH \div 2, SCREEN_HEIGHT \div 2>>>>,
              !.direction = dir, !.score = 0, !.grow_to = 3, !.dead = FALSE]

\* Snake.update: the new head position
new_head(s) ==
    <<(s.positions[1][1] + s.direction[1] * SNAKE_GRID_SIZE) % SCREEN_WIDTH,
      (s.positions[1][2] + s.direction[2] * SNAKE_GRID_SIZE) % SCREEN_HEIGHT>>

\* new_head in self.positions
InPositions(c, positions) == \E i \in 1..Len(positions) : positions[i] = c

\* a check of the new head against the body without the tail cell
HitsItself_NoTail(s) ==
    InPositions(new_head(s), SubSeq(s.positions, 1, Len(s.positions) - 1))

\* Snake.update: the snake hits itself
HitsItself(s) == InPositions(new_head(s), s.positions)

\* a move that stops at the edges of the screen
UpdateCells_Edge(s) ==
    IF s.dead THEN s
    ELSE IF HitsItself(s)
              \/ s.positions[1][1] + s.direction[1] * SNAKE_GRID_SIZE
                   \notin 0..(SCREEN_WIDTH - 1)
              \/ s.positions[1][2] + s.direction[2] * SNAKE_GRID_SIZE
                   \notin 0..(SCREEN_HEIGHT - 1)
    THEN [s EXCEPT !.dead = TRUE]
    ELSE LET longer == <<new_head(s)>> \o s.positions
         IN [s EXCEPT !.positions =
                        IF Len(longer) > s.grow_to
                        THEN SubSeq(longer, 1, Len(longer) - 1) ELSE longer]

\* Snake.update
UpdateCells(s) ==
    IF s.dead THEN s
    ELSE IF HitsItself(s) THEN [s EXCEPT !.dead = TRUE]
    ELSE LET longer == <<new_head(s)>> \o s.positions
         IN [s EXCEPT !.positions =
                        IF Len(longer) > s.grow_to
                        THEN SubSeq(longer, 1, Len(longer) - 1) ELSE longer]

NoMoveYet ==
    [head |-> <<0, 0>>, positions |-> <<>>, hit |-> FALSE, dir |-> <<0, 0>>]

\* the session once the start button is clicked: the snake of Snake.__init__
\* and the food of Food.__init__
CellsInit ==
    /\ pc = "snake"
    /\ game = 0
    /\ now = 0
    /\ file = Missing
    /\ last = NoCall
    /\ hist = NoHist
    /\ ev = NoMoveYet
    /\ \E dir \in Directions, food \in FoodCells :
         ses = ResetCells([game_active |-> TRUE, game_over |-> FALSE,
                           paused |-> FALSE, food |-> food,
                           positions |-> <<>>, direction |-> dir, score |-> 0,
                           grow_to |-> 3, dead |-> FALSE], dir)

\* KEYDOWN of an arrow, of P or ESCAPE, or of RETURN
CellsKeyDown ==
    /\ pc = "snake"
    /\ \E k \in {"UP", "DOWN", "LEFT", "RIGHT", "P", "RETURN"} :
         LET s1 == IF ses.game_active /\ ~ses.paused
                      /\ k \in {"UP", "DOWN", "LEFT", "RIGHT"}
                   THEN change_direction(ses, KeyDirection(k)) ELSE ses
             s2 == IF PauseKey(k) /\ s1.game_active
                   THEN [s1 EXCEPT !.paused = ~@] ELSE s1
         IN IF ~s2.game_active /\ k = "RETURN"
            THEN \E dir \in Directions, food \in FoodCells :
                   ses' = ResetCells([s2 EXCEPT !.game_active = TRUE,
                                                !.game_over = FALSE,
                                                !.food = food], dir)
            ELSE ses' = s2
    /\ UNCHANGED <<file, last, pc, game, now, ev, hist>>

\* a tick of the active branch in which the snake is due to move; now counts
\* the moves, ev keeps the head computed, the cells before the move, whether
\* the snake hit itself and the direction the move used
CellsTick ==
    /\ pc = "snake"
    /\ ses.game_active /\ ~ses.paused
    /\ now < MaxMoves
    /\ LET s1 == UpdateCells(ses)
           s2 == IF s1.dead
                 THEN [s1 EXCEPT !.game_active = FALSE, !.game_over = TRUE]
                 ELSE s1
           ate == s2.positions[1] = s2.food
           s3 == IF ate THEN SnakeGrow(s2) ELSE s2
       IN /\ \E food \in FoodCells :
               /\ IF ate THEN ~InPositions(food, s3.positions)
                  ELSE food = s3.food
               /\ ses' = [s3 EXCEPT !.food = food]
          /\ ev' = [head |-> new_head(ses), positions |-> ses.positions,
                    hit |-> s1.dead, dir |-> ses.direction]
    /\ now' = now + 1
    /\ UNCHANGED <<file, last, pc, game, hist>>

CellsNext == CellsKeyDown \/ CellsTick

SpecSnake == CellsInit /\ [][CellsNext]_vars

-----------------------------------------------------------------------------
(* The paddle of Breakout in the tick: Paddle.update, the power-ups that     *)
(* change its width and the reset of the width with a level.  The widths the *)
(* code works with (20, 40, 200) are pixels of a screen wider than 200, so   *)
(* these runs take a screen of PlayWidth and a paddle of PlayPaddle pixels   *)
(* where the runs of the ball take the small ones.  Under SpecPaddle ses     *)
(* holds the paddle and the control mode, and ev the facts of the last tick. *)

PlayWidth == 240
PaddleSpeed == 10

\* Paddle.__init__ on a screen w pixels wide, top at y, for a paddle of width
NewPaddleOn(w, y, width) ==
    [rect |-> Rect(w \div 2 - width \div 2, y, width, 15), width |-> width]

\* Paddle.update on a screen w pixels wide: the mouse or the keys move the
\* paddle, then it is kept on the screen
PaddleUpdate(p, mouse_control, mouse_x, left, rt, w) ==
    LET x1 == IF mouse_control THEN mouse_x - (p.rect.w \div 2)
              ELSE p.rect.x - (IF left THEN PaddleSpeed ELSE 0)
                            + (IF rt THEN PaddleSpeed ELSE 0)
        x2 == IF x1 < 0 THEN 0 ELSE x1
        x3 == IF x2 + p.rect.w > w THEN w - p.rect.w ELSE x2
    IN [p EXCEPT !.rect.x = x3]

\* the effect of a caught power-up on the paddle: the width changes and the
\* left edge stays (rect.centerx is set to itself)
PowerUpEffect(p, type) ==
    LET width == CaughtWidth(p.width, type)
    IN [p EXCEPT !.width = width, !.rect.w = width]

\* the paddle part of a completed level: the width is reset
ResetWidth(p, width) == [p EXCEPT !.width = width, !.rect.w = width]

NoPaddleTick == [caught |-> "none", cleared |-> FALSE]

\* the session when play starts, in either control mode
PaddleInit ==
    /\ pc = "paddle"
    /\ game = 2
    /\ now = 0
    /\ file = Missing
    /\ last = NoCall
    /\ hist = NoHist
    /\ ev = NoPaddleTick
    /\ \E mouse_control \in BOOLEAN :
         ses = [paddle |-> NewPaddleOn(PlayWidth, SCREEN_HEIGHT - 40, PlayPaddle),
                mouse_control |-> mouse_control]

\* the paddle in one tick of the active branch: its update, the power-up the
\* paddle catches in the tick (caught) and the end of a level (cleared); now
\* counts the ticks
PaddleTick ==
    /\ pc = "paddle"
    /\ now < MaxPaddleTicks
    /\ \E mouse_x \in {0, PlayWidth \div 2, PlayWidth - 1},
          left \in BOOLEAN, rt \in BOOLEAN,
          caught \in {"none", "expand", "shrink", "extra_life"},
          cleared \in BOOLEAN :
         LET p1 == PaddleUpdate(ses.paddle, ses.mouse_control, mouse_x, left,
                                rt, PlayWidth)
             p2 == PowerUpEffect(p1, caught)
             p3 == IF cleared THEN ResetWidth(p2, PlayPaddle) ELSE p2
         IN /\ ses.mouse_control => ~left /\ ~rt
            /\ ~ses.mouse_control => mouse_x = 0
            /\ ses' = [ses EXCEPT !.paddle = p3]
            /\ ev' = [caught |-> caught, cleared |-> cleared]
    /\ now' = now + 1
    /\ UNCHANGED <<file, last, pc, game, hist>>

PaddleNext == PaddleTick

SpecPaddle == PaddleInit /\ [][PaddleNext]_vars

-----------------------------------------------------------------------------
(* The paddles and the ball of Pong with their rectangles: the paddle        *)
(* updates and Ball.update of the active tick.  The runs take a court of     *)
(* PongWidth by PongHeight that holds the two paddles, 30 pixels from its    *)
(* ends, two ball lengths apart.  Under SpecPong ses holds the ball and the  *)
(* two paddles, and ev the facts of the last tick.                           *)

PongWidth == 100
PongHeight == 30
BALL_SIZE == 10
BALL_SPEED_X == 5
BALL_SPEED_Y == 5
PADDLE_WIDTH == 10
PADDLE_HEIGHT == 20
PADDLE_SPEED == 10

centery(r) == r.y + (r.h \div 2)

\* Paddle.keep_in_bounds
keep_in_bounds(p) ==
    LET p1 == IF p.rect.y < 0 THEN [p EXCEPT !.rect.y = 0] ELSE p
    IN IF bottom(p1.rect) > PongHeight
       THEN [p1 EXCEPT !.rect.y = PongHeight - p1.rect.h] ELSE p1

\* Paddle.update(keys) with the paddle's two keys: move_up, then move_down
PaddleKeys(p, up, down) ==
    LET p1 == IF up THEN keep_in_bounds([p EXCEPT !.rect.y = @ - PADDLE_SPEED])
              ELSE p
    IN IF down THEN keep_in_bounds([p1 EXCEPT !.rect.y = @ + PADDLE_SPEED])
       ELSE p1

\* a paddle collision that speeds the ball up without turning it
handle_paddle_collision_Through(b, paddle) ==
    [b EXCEPT !.dx = IF Abs(b.dx) < 15 * VScale THEN (@ * 11) \div 10 ELSE @]

\* Ball.handle_paddle_collision; the products are cut towards 0
handle_paddle_collision(b, paddle) ==
    LET ndx == 0 - b.dx
        off == centery(paddle.rect) - centery(b.rect)
        rel == IF off >= 0 THEN (off * 2 * BALL_SPEED_Y * VScale) \div paddle.rect.h
               ELSE 0 - (((0 - off) * 2 * BALL_SPEED_Y * VScale)
                           \div paddle.rect.h)
    IN [b EXCEPT !.dx = IF Abs(ndx) < 15 * VScale
                        THEN IF ndx >= 0 THEN (ndx * 11) \div 10
                             ELSE 0 - (((0 - ndx) * 11) \div 10)
                        ELSE ndx,
                 !.dy = 0 - rel]

\* Ball.reset_position; sx and sy are the random.choice draws
reset_position(b, sx, sy) ==
    [b EXCEPT !.rect.x = PongWidth \div 2 - (b.rect.w \div 2),
              !.rect.y = PongHeight \div 2 - (b.rect.h \div 2),
              !.dx = sx * BALL_SPEED_X * VScale,
              !.dy = sy * BALL_SPEED_Y * VScale]

\* Ball.update(left_paddle, right_paddle): the ball, the paddles with their
\* scores and the value returned
PongBallUpdate(b, lp, rp, sx, sy) ==
    LET b1 == [b EXCEPT !.rect.x = Moved(@, b.dx), !.rect.y = Moved(@, b.dy)]
        b2 == IF b1.rect.y <= 0 \/ bottom(b1.rect) >= PongHeight
              THEN [b1 EXCEPT !.dy = 0 - @] ELSE b1
    IN IF b2.rect.x <= 0
       THEN [ball |-> reset_position(b2, sx, sy), left |-> lp,
             right |-> [rp EXCEPT !.score = @ + 1], result |-> "right_score"]
       ELSE IF right(b2.rect) >= PongWidth
       THEN [ball |-> reset_position(b2, sx, sy),
             left |-> [lp EXCEPT !.score = @ + 1], right |-> rp,
             result |-> "left_score"]
       ELSE LET b3 == IF colliderect(b2.rect, lp.rect) /\ b2.dx < 0
                      THEN handle_paddle_collision(b2, lp) ELSE b2
                b4 == IF colliderect(b3.rect, rp.rect) /\ b3.dx > 0
                      THEN handle_paddle_collision(b3, rp) ELSE b3
            IN [ball |-> b4, left |-> lp, right |-> rp, result |-> "none"]

\* Paddle.__init__ at x, in the middle of the court's height
NewPongPaddle(x) ==
    [rect |-> Rect(x, PongHeight \div 2 - PADDLE_HEIGHT \div 2,
                   PADDLE_WIDTH, PADDLE_HEIGHT),
     score |-> 0]

\* Ball.__init__
NewPongBall(sx, sy) ==
    reset_position([rect |-> Rect(PongWidth \div 2 - BALL_SIZE \div 2,
                                  PongHeight \div 2 - BALL_SIZE \div 2,
                                  BALL_SIZE, BALL_SIZE),
                    dx |-> 0, dy |-> 0], sx, sy)

Signs == {0 - 1, 1}

NoRallyYet == [ball |-> NewPongBall(1, 1), result |-> "none"]

\* the objects of run_pong_game before its loop
PongInit ==
    /\ pc = "pong"
    /\ game = 1
    /\ now = 0
    /\ file = Missing
    /\ last = NoCall
    /\ hist = NoHist
    /\ ev = NoRallyYet
    /\ \E sx, sy \in Signs :
         ses = [ball |-> NewPongBall(sx, sy),
                left |-> NewPongPaddle(30),
                right |-> NewPongPaddle(PongWidth - 30 - PADDLE_WIDTH)]

\* the active, unpaused tick of a two-player game up to the point it tests
\* the scores: both paddles follow their keys, then the ball is updated; the
\* draws of reset_position count only in a call that resets; ev keeps the
\* ball before the call and the value returned
PongRally ==
    /\ pc = "pong"
    /\ now < MaxPongTicks
    /\ ses.left.score + ses.right.score < MaxPoints
    /\ \E w, s, up, down \in BOOLEAN, sx, sy \in Signs :
         LET lp == PaddleKeys(ses.left, w, s)
             rp == PaddleKeys(ses.right, up, down)
             a == PongBallUpdate(ses.ball, lp, rp, sx, sy)
         IN /\ a.result = "none" => sx = 1 /\ sy = 1
            /\ ses' = [ball |-> a.ball, left |-> a.left, right |-> a.right]
            /\ ev' = [ball |-> ses.ball, result |-> a.result]
    /\ now' = now + 1
    /\ UNCHANGED <<file, last, pc, game, hist>>

PongNext == PongRally

SpecPong == PongInit /\ [][PongNext]_vars

-----------------------------------------------------------------------------
(* The Score Store from its empty state, with the scores added so far: under *)
(* SpecAdds hist[g] is the greatest score add_score was called with for the  *)
(* title g, -1 if there was no call.                                         *)

NoneAdded == [g \in CallTitles |-> 0 - 1]

\* no leaderboard.json yet, or the one init_leaderboard writes
EmptyInit ==
    /\ pc = "launcher"
    /\ game = 0 - 1
    /\ ses = NoSession
    /\ now = 0
    /\ ev = NoEvent
    /\ hist = NoneAdded
    /\ file \in {Missing, Json(EmptyLeaderboard)}
    /\ last = NoCall

\* add_score(g, s) with a score that is not negative
AddTracked ==
    \E g \in CallTitles, s \in 0..MaxScoreVal :
        /\ last.n < MaxStoreAdds
        /\ file' = add_score(file, g, s)
        /\ last' = [op |-> "add_score", game |-> g, score |-> s,
                    before |-> file, ret |-> add_score(file, g, s).lb,
                    n |-> last.n + 1]
        /\ hist' = [hist EXCEPT ![g] = IF s > @ THEN s ELSE @]
        /\ UNCHANGED <<pc, game, ses, now, ev>>

AddsNext == AddTracked \/ LoadLeaderboard

SpecAdds == EmptyInit /\ [][AddsNext]_vars

-----------------------------------------------------------------------------
(* Space Shooter, the enemies and the player of its tick: under SpecSwarm    *)
(* ses is the locals of run_shooter_game with the fields of Player, the      *)
(* player never shoots, the player-enemy loop runs over every enemy that     *)
(* overlaps the player, and now is pygame.time.get_ticks().                  *)

\* the time between two ticks of the runs
SwarmStep == 3400

\* at most the MaxTouching oldest enemies are on the player in a tick
MaxTouching == 3

\* a spawn that does not look at enemy_count
SpawnEnemy_Unbounded(s, due) ==
    IF due THEN [s EXCEPT !.enemies = Append(@, "basic")] ELSE s

\* the spawn of the tick; due says ENEMY_FREQUENCY ms passed since the last
SpawnEnemy(s, due) ==
    IF due /\ Len(s.enemies) < s.enemy_count
    THEN [s EXCEPT !.enemies = Append(@, "basic")]
    ELSE s

\* a hit that leaves the player vulnerable
get_hit_Exposed(s) ==
    IF ~s.invulnerable
    THEN [p |-> [s EXCEPT !.lives = @ - 1], hit |-> TRUE]
    ELSE [p |-> s, hit |-> FALSE]

\* Player.get_hit on the player's fields in s: the locals after the call and
\* the value returned
get_hit(s) ==
    IF ~s.invulnerable
    THEN [p |-> [s EXCEPT !.lives = @ - 1, !.invulnerable = TRUE],
          hit |-> TRUE]
    ELSE [p |-> s, hit |-> FALSE]

\* the player-enemy loop from the i-th enemy of the copy q on: on holds the
\* indices in q of the enemies that overlap the player, k enemies of q are
\* removed already
RECURSIVE PlayerLoop(_, _, _, _, _)
PlayerLoop(s, q, on, i, k) ==
    IF i > Len(q) THEN s
    ELSE IF i \notin on THEN PlayerLoop(s, q, on, i + 1, k)
    ELSE LET h == get_hit(s)
             s1 == [h.p EXCEPT !.enemies = RemoveIndex(@, i - k)]
             s2 == IF s1.lives <= 0
                   THEN [s1 EXCEPT !.game_active = FALSE, !.game_over = TRUE]
                   ELSE s1
         IN IF h.hit THEN PlayerLoop(s2, q, on, i + 1, k + 1)
            ELSE PlayerLoop(h.p, q, on, i + 1, k)

NoSwarmTick == [ticked |-> FALSE]

SwarmInit ==
    /\ pc = "swarm"
    /\ game = 4
    /\ now = 0
    /\ file = Missing
    /\ last = NoCall
    /\ hist = [ticks |-> 0, restarts |-> 0]
    /\ ev = NoSwarmTick
    /\ ses = ShooterStart(file)

\* the click on the start button of the start screen
SwarmStart ==
    /\ pc = "swarm"
    /\ ~ses.game_active /\ ~ses.game_over
    /\ ses' = [ses EXCEPT !.game_active = TRUE, !.wave_start_time = now]
    /\ ev' = NoSwarmTick
    /\ UNCHANGED <<file, last, pc, game, now, hist>>

\* the reset of the game on the game over screen, by key or by button
SwarmRestart ==
    /\ pc = "swarm"
    /\ ses.game_over
    /\ hist.restarts < MaxRestarts
    /\ ses' = ShooterRestart(ses, now)
    /\ ev' = NoSwarmTick
    /\ hist' = [hist EXCEPT !.restarts = @ + 1]
    /\ UNCHANGED <<file, last, pc, game, now>>

\* one active, unpaused tick of run_shooter_game SwarmStep ms after the last:
\* expired is the running out of the invulnerability in Player.update, off
\* the enemies that leave the screen, due the spawn timer, on the enemies
\* that overlap the player; ev keeps the locals before the player-enemy loop
\* and the number of enemies spawned
SwarmTick ==
    /\ pc = "swarm"
    /\ ses.game_active
    /\ hist.ticks < MaxSwarmTicks
    /\ \E expired, due \in BOOLEAN, off \in SUBSET (1..Min2(Len(ses.enemies), 1)) :
         LET t == now + SwarmStep
             s1 == [ses EXCEPT !.invulnerable = @ /\ ~expired,
                               !.score = Misses(@, Cardinality(off)),
                               !.enemies = Without(@, off, 1)]
             s2 == SpawnEnemy(s1, due)
             s3 == WaveCheck(s2, t)
         IN /\ expired => ses.invulnerable
            /\ \E on \in SUBSET (1..Min2(Len(s1.enemies), MaxTouching)) :
                 /\ ses' = PlayerLoop(s3, s3.enemies, on, 1, 0)
                 /\ ev' = [ticked |-> TRUE, before |-> s3, on |-> on,
                           due |-> due,
                           spawned |-> Len(s2.enemies) - Len(s1.enemies)]
            /\ now' = t
    /\ hist' = [hist EXCEPT !.ticks = @ + 1]
    /\ UNCHANGED <<file, last, pc, game>>

SwarmNext == SwarmStart \/ SwarmTick \/ SwarmRestart

SpecSwarm == SwarmInit /\ [][SwarmNext]_vars

-----------------------------------------------------------------------------
(* Claims about the Score Store, checked under SpecStore *)

IsDescending(l) == \A i \in 1..(Len(l) - 1) : l[i] >= l[i + 1]

Contains(l, x) == \E i \in 1..Len(l) : l[i] = x

\* the list stored for game g in mapping lb (none stored: the empty list)
ListOf(lb, g) == IF g \in DOMAIN lb THEN lb[g] ELSE <<>>

\* x is among the TopN largest of the entries of l together with x
RanksInTop(l, x) == Cardinality({i \in 1..Len(l) : l[i] > x}) < TopN

\* C1: after add_score(game, score), load_leaderboard() returns for that game a
\* list that is sorted descending, has at most 5 entries, and contains the new
\* score whenever it ranks among the 5 largest of the previous entries and itself.
C1_RoundTrip ==
    last.op = "add_score" =>
        LET l == ListOf(load_leaderboard(file).ret, last.game)
            prev == ListOf(load_leaderboard(last.before).ret, last.game)
        IN /\ IsDescending(l)
           /\ Len(l) <= TopN
           /\ RanksInTop(prev, last.score) => Contains(l, last.score)

\* a full list took a new score that beat its last entry, which was dropped
C1_Witness ==
    /\ last.op = "add_score"
    /\ Len(ListOf(load_leaderboard(last.before).ret, last.game)) = TopN
    /\ last.score > ListOf(load_leaderboard(last.before).ret, last.game)[TopN]
    /\ Contains(ListOf(load_leaderboard(file).ret, last.game), last.score)

\* C2: load_leaderboard on a missing or unparsable leaderboard.json returns the
\* empty mapping over the known titles and leaves the file reinitialized to it.
C2_Reinitialized ==
    (last.op = "load_leaderboard" /\ last.before.state \in {"missing", "corrupt"})
        => /\ last.ret = EmptyLeaderboard
           /\ file = Json(EmptyLeaderboard)

-----------------------------------------------------------------------------
(* Claims about the sessions, checked under Spec *)

\* the score of the running session: in Pong the left paddle's
SessionScore(s) == IF game = 1 THEN s.left_score ELSE s.score

\* the terminal condition of the running game, as its locals show it; the
\* bird's collisions are facts of the tick
TerminalCondition ==
    CASE game = 0 -> ses.dead
      [] game = 1 -> \/ ses.left_score >= ses.winning_score
                     \/ ses.right_score >= ses.winning_score
      [] game = 3 -> ev.terminal
      [] OTHER -> ses.lives <= 0

\* C3: a score is written to the Score Store, by add_score inside a game or by
\* update_leaderboard when the launcher regains control, only if it is
\* strictly greater than the high score stored for that game before the call.
C3_OnlyHighScores ==
    last.op \in {"add_score", "update_leaderboard"} =>
        last.score > get_high_score(last.before, last.game)

\* C4: a session enters GameOver only by a step taken while it is active and
\* not paused, a tick in which the game's terminal condition holds; never from
\* the menu and never while paused.
C4_GameOverOnlyFromActive ==
    [][(pc = "game" /\ pc' = "game" /\ ~ses.game_over /\ ses'.game_over)
         => /\ ses.game_active
            /\ ~ses.paused
            /\ ev'.terminal
            /\ TerminalCondition']_vars

\* the Shooter has just ended on the hit that took the last life
C4_Witness ==
    /\ pc = "game" /\ game = 4
    /\ ses.game_over /\ ~ses.game_active
    /\ ev.terminal
    /\ ses.lives = 0

\* C5: a step that starts and ends with the session paused leaves every local
\* of the session as it was: entities, attachment flag, score, lives, level.
C5_PausedFrozen ==
    [][(pc = "game" /\ pc' = "game" /\ ses.paused /\ ses'.paused)
         => ses' = ses]_vars

\* C6: in the Shooter the wave counter advances only when more than 20 seconds
\* of unpaused active play have passed since the current wave started.
C6_WaveAfterActivePlay ==
    [][(pc = "game" /\ game = 4 /\ pc' = "game" /\ ses.game_active
        /\ ses'.wave > ses.wave)
         => hist.activeMs > WaveDuration]_vars

\* C7: the score of a session is never negative, and a step of an active
\* session lowers it by at most 1 for each enemy that left the screen in a
\* Shooter tick, and not at all otherwise.
C7_ScoreMonotone ==
    /\ [](pc = "game" => SessionScore(ses) >= 0)
    /\ [][(pc = "game" /\ pc' = "game" /\ ses.game_active)
            => SessionScore(ses') >= SessionScore(ses)
                                     - (IF game = 4 THEN ev'.misses ELSE 0)]_vars

\* the Shooter score after a kill of 10 points and one missed enemy
C7_Witness ==
    /\ pc = "game" /\ game = 4
    /\ ses.game_active
    /\ ev.misses = 1
    /\ ses.score = 9

\* C8 as stated: in Breakout and the Shooter no step of an active session
\* raises lives.
C8_LivesNeverIncrease ==
    [][(pc = "game" /\ game \in {2, 4} /\ pc' = "game" /\ ses.game_active)
         => ses'.lives <= ses.lives]_vars

\* C8, amended: in the Shooter lives never increases; in Breakout a tick
\* raises it by one for each extra_life power-up the paddle catches and by
\* nothing else; a step lowers it by at most one, and a step that brings it
\* to 0 ends the game.
C8_LivesChange ==
    [][(pc = "game" /\ game \in {2, 4} /\ pc' = "game" /\ ses.game_active)
         => /\ ses'.lives <= ses.lives + (IF game = 2 THEN ev'.extra ELSE 0)
            /\ ses'.lives >= ses.lives - 1
            /\ ses'.lives <= 0 => ses'.game_over]_vars

\* the Breakout paddle has just caught an extra_life power-up: four lives
C8_Witness ==
    /\ pc = "game" /\ game = 2
    /\ ev.extra = 1
    /\ ses.lives = 4

-----------------------------------------------------------------------------
(* Claims about the collisions, checked under SpecBall and SpecHits          *)

\* C9: one call of Ball.update hits at most one brick: of the bricks the
\* moved ball overlaps only the first in list order loses strength, at most one
\* brick leaves the list, and the score change is at most that brick's points.
C9_OneBrickPerCall ==
    (pc = "ball" /\ now > 0) =>
        LET O == Overlapped(ev.moved, ev.before)
        IN IF ev.attached \/ O = {}
           THEN /\ ses.bricks = ev.before
                /\ ev.points = 0
                /\ ev.broken = <<>>
           ELSE LET f == CHOOSE i \in O : \A j \in O : i <= j
                    broken == ev.before[f].strength = 1
                IN /\ ses.bricks =
                        IF broken THEN RemoveIndex(ev.before, f)
                        ELSE [ev.before EXCEPT ![f].strength = @ - 1]
                   /\ Len(ev.broken) <= 1
                   /\ Len(ses.bricks) >= Len(ev.before) - 1
                   /\ ev.points = (IF broken THEN ev.before[f].points ELSE 0)
                   /\ ev.points <= ev.before[f].points

\* C9 witness: the moved ball overlapped two bricks and one brick was removed
C9_Witness ==
    /\ pc = "ball"
    /\ now > 0
    /\ ~ev.attached
    /\ Cardinality(Overlapped(ev.moved, ev.before)) >= 2
    /\ Len(ses.bricks) = Len(ev.before) - 1
    /\ ev.points = ev.before[1].points

\* C10: a bullet resolves at most one collision in a tick: every bullet
\* removes at most one enemy (and so adds one enemy's points), and a tick
\* removes no more enemies than bullets.
C10_OneCollisionPerBullet ==
    (pc = "hits" /\ now > 0) =>
        /\ \A b \in 1..Len(ev.bullets) : Cardinality(ev.kills[b]) <= 1
        /\ Len(ev.enemies) - Len(ses.enemies)
             <= Len(ev.bullets) - Len(ses.bullets)

-----------------------------------------------------------------------------
(* Claims about the bricks and the bounces of Ball.update, under SpecBall    *)

\* the points create_bricks declares for the brick with a rectangle
DeclaredPoints(rect) ==
    LET i == CHOOSE j \in 1..Len(BrickLayout) : BrickLayout[j].rect = rect
    IN BrickLayout[i].points

\* the points of the reports of the log that say broken
RECURSIVE BrokenPoints(_)
BrokenPoints(log) ==
    IF log = <<>> THEN 0
    ELSE (IF Head(log).broken THEN Head(log).points ELSE 0)
         + BrokenPoints(Tail(log))

\* the brick the last call hit (0: none)
StruckIndex ==
    IF ev.attached \/ Overlapped(ev.moved, ev.before) = {} THEN 0
    ELSE CHOOSE i \in Overlapped(ev.moved, ev.before) :
           \A j \in Overlapped(ev.moved, ev.before) : i <= j

\* the hits of the calls so far: a brick in the list has a hit left to take, a
\* hit on a brick with more than one hit left keeps it with one hit less and
\* adds nothing, the last hit removes it and adds its declared points, no
\* brick is hit after it broke; zero says what Brick.hit reports for a brick
\* it did not break: 0 points, or the declared points
HitsCounted(zero) ==
    (pc = "ball" /\ now > 0) =>
        /\ \A i \in 1..Len(ses.bricks) : ses.bricks[i].strength >= 1
        /\ \A k \in 1..Len(ev.log) :
             /\ ev.log[k].points =
                  IF zero /\ ~ev.log[k].broken THEN 0
                  ELSE DeclaredPoints(ev.log[k].rect)
             /\ ev.log[k].broken =>
                  \A k2 \in (k + 1)..Len(ev.log) :
                     ev.log[k2].rect # ev.log[k].rect
        /\ ev.total = BrokenPoints(ev.log)
        /\ StruckIndex # 0 =>
             LET b == ev.before[StruckIndex]
                 r == ev.log[Len(ev.log)]
             IN /\ r.rect = b.rect
                /\ r.broken = (b.strength = 1)
                /\ IF b.strength > 1
                   THEN /\ ses.bricks = [ev.before EXCEPT
                                           ![StruckIndex].strength = @ - 1]
                        /\ ev.points = 0
                   ELSE /\ \A i \in 1..Len(ses.bricks) :
                             ses.bricks[i].rect # b.rect
                        /\ ev.points = b.points

\* C11 (as stated): a brick of strength 2 struck once reports not broken with
\* 0 points and stays in the list; struck again it reports broken with its
\* declared points and is removed only then; a brick of strength n is removed
\* on its n-th hit and its points are added to the score once.
C11_ZeroPointsReport == HitsCounted(TRUE)

\* C11 (amended): as above, but Brick.hit reports the declared points of the
\* brick on every hit; Ball.update adds them to the score only for the hit
\* that breaks the brick.
C11_HitsCounted == HitsCounted(FALSE)

\* C11 witness: one brick was hit in two calls, not broken by the first and
\* broken by the second, and its points were added once
C11_Witness ==
    /\ pc = "ball"
    /\ Len(ev.log) = 2
    /\ ev.log[1].rect = ev.log[2].rect
    /\ ~ev.log[1].broken
    /\ ev.log[2].broken
    /\ ev.total = ev.log[2].points
    /\ ev.total > 0

\* the last call moved a ball that was going down onto the paddle
HitPaddle ==
    /\ pc = "ball"
    /\ now > 0
    /\ ~ev.attached
    /\ ev.ball.dy > 0
    /\ colliderect(ev.moved, ses.paddle.rect)

\* r * 7 for the ball of the last call, in 1/VScale pixel: r is the offset of
\* the centre of the ball from the centre of the paddle over half its width
OffsetSpeed ==
    LET off == centerx(ev.moved) - centerx(ses.paddle.rect)
        w == ses.paddle.rect.w
    IN IF off >= 0 THEN (off * 2 * 7 * VScale) \div w
       ELSE 0 - (((0 - off) * 2 * 7 * VScale) \div w)

\* C12 (as stated): when a ball that moves down hits the paddle with its
\* centre at the fraction r of the half-width from the paddle centre, its dx
\* after the update is r * 7, its dy is upward and at least 3 in size.
C12_BounceOffset ==
    HitPaddle =>
        /\ ses.ball.dx = OffsetSpeed
        /\ ses.ball.dy < 0
        /\ Abs(ses.ball.dy) >= 3 * VScale

\* C12 (amended): the bounce sets dx to r * 7; the update then limits it to
\* max_speed and multiplies both components by 1 + speed_increase / 100, so
\* after the update dx is that product; dy is upward and at least 3 in size.
C12_BounceThenSpeedUp ==
    HitPaddle =>
        /\ ses.ball.dx =
             SpeedUp(Max2(Min2(OffsetSpeed, ev.ball.max_speed),
                          0 - ev.ball.max_speed))
        /\ Abs(ses.ball.dx) >= Abs(OffsetSpeed)
             \/ Abs(OffsetSpeed) > ev.ball.max_speed
        /\ ses.ball.dy < 0
        /\ Abs(ses.ball.dy) >= 3 * VScale

\* C12 witness: the ball hit the paddle at half of its half-width to the right
\* of the centre and leaves with 3.5 times the speed-up
C12_Witness ==
    /\ HitPaddle
    /\ 2 * (centerx(ev.moved) - centerx(ses.paddle.rect)) * 2
         = ses.paddle.rect.w
    /\ OffsetSpeed = (7 * VScale) \div 2
    /\ ses.ball.dx > OffsetSpeed
    /\ ses.ball.dy < 0

-----------------------------------------------------------------------------
(* Claims about the cells of the snake, under SpecSnake                      *)

\* a step of SpecSnake is a tick in which the snake is due to move
CellsMoved == pc = "snake" /\ now' = now + 1

\* C13: whenever the new head is a cell the snake occupies, the snake is
\* marked dead without moving, and the session goes from Active to GameOver
\* in that same update.
C13_SelfCollision ==
    [][(CellsMoved /\ InPositions(new_head(ses), ses.positions))
         => /\ ses.game_active
            /\ ses'.dead
            /\ ses'.positions = ses.positions
            /\ ~ses'.game_active
            /\ ses'.game_over]_vars

\* C13 witness: a snake of three cells turned back onto its second cell and
\* the session is over
C13_Witness ==
    /\ pc = "snake"
    /\ ev.hit
    /\ Len(ev.positions) = 3
    /\ ev.head = ev.positions[2]
    /\ ses.positions = ev.positions
    /\ ses.dead
    /\ ses.game_over

\* every cell of the snake is on the screen
OnScreen ==
    \A i \in 1..Len(ses.positions) :
       /\ ses.positions[i][1] \in 0..(SCREEN_WIDTH - 1)
       /\ ses.positions[i][2] \in 0..(SCREEN_HEIGHT - 1)

\* C14: every move wraps: the new head is the old head plus one grid step in
\* the direction, modulo the width and the height of the screen; every cell of
\* the snake stays on the screen, and a move ends the session only when the
\* new head is a cell of the snake, never because it left through an edge.
C14_Toroidal ==
    /\ [](pc = "snake" => OnScreen)
    /\ [][CellsMoved =>
            IF InPositions(new_head(ses), ses.positions)
            THEN ses'.game_over
            ELSE /\ ~ses'.dead /\ ses'.game_active
                 /\ ses'.positions[1] =
                      <<(ses.positions[1][1]
                           + ses.direction[1] * SNAKE_GRID_SIZE) % SCREEN_WIDTH,
                        (ses.positions[1][2]
                           + ses.direction[2] * SNAKE_GRID_SIZE) % SCREEN_HEIGHT>>
                 /\ \A i \in 2..Len(ses'.positions) :
                      ses'.positions[i] = ses.positions[i - 1]]_vars

\* C14 witness: the snake left through the right edge and its head is in the
\* first column, the session still active
C14_Witness ==
    /\ pc = "snake"
    /\ Len(ses.positions) >= 2
    /\ ses.positions[1][1] = 0
    /\ ses.positions[2][1] = SCREEN_WIDTH - SNAKE_GRID_SIZE
    /\ ~ses.dead
    /\ ses.game_active

-----------------------------------------------------------------------------
(* Claim about the paddle, under SpecPaddle                                  *)

\* C15: after every tick in Active the entities that clip lie inside the
\* playfield; for the Breakout paddle 0 <= left and right <= SCREEN_WIDTH,
\* also after a tick in which an expand power-up widens it or the end of a
\* level resets its width.
C15_PaddleInside ==
    (pc = "paddle" /\ now > 0) =>
        /\ 0 <= ses.paddle.rect.x
        /\ right(ses.paddle.rect) <= PlayWidth

-----------------------------------------------------------------------------
(* Claims about the velocity of the ball, under SpecBall                     *)

Sign(v) == IF v > 0 THEN 1 ELSE IF v < 0 THEN 0 - 1 ELSE 0

\* the last call moved the ball
BallMoved == pc = "ball" /\ now > 0 /\ ~ev.attached

\* C16: whenever the movement of a tick takes the ball to or past a wall that
\* reflects (in Breakout the left, the right and the top one), the velocity
\* component on the crossed axis has after the tick the opposite sign to the
\* one it had before.
C16_WallReflects ==
    BallMoved =>
        /\ (ev.moved.x <= 0 \/ right(ev.moved) >= SCREEN_WIDTH)
             => Sign(ses.ball.dx) = 0 - Sign(ev.ball.dx)
        /\ ev.moved.y <= 0 => Sign(ses.ball.dy) = 0 - Sign(ev.ball.dy)

\* C17: after every Ball.update both |dx| and |dy| of the ball are at most its
\* max_speed.
C17_SpeedCapped ==
    BallMoved =>
        /\ Abs(ses.ball.dx) <= ses.ball.max_speed
        /\ Abs(ses.ball.dy) <= ses.ball.max_speed

-----------------------------------------------------------------------------
(* Claims about restarts and the pause flag, under Spec                      *)

\* a step restarts the game from the game over screen
Restarted == pc = "game" /\ pc' = "game" /\ ses.game_over /\ ses'.game_active

\* C18: in every game a restart from GameOver re-enters Active with the state
\* of a session that was just started: score 0, the initial lives and level or
\* wave, fresh collections, and the parameters of the entities at their
\* initial values (in Breakout the max_speed of the ball).  The settings made
\* on the start screen, the high score read at the start and what is drawn at
\* random are left out of the comparison.
C18_RestartIsFresh ==
    [][Restarted =>
         ses' = CASE game = 0 ->
                     [SnakeStart(file, ses'.direction) EXCEPT
                        !.game_active = TRUE, !.high_score = ses'.high_score]
                  [] game = 1 ->
                     [PongStart(file) EXCEPT
                        !.game_active = TRUE, !.high_score = ses'.high_score,
                        !.player_mode = ses'.player_mode,
                        !.ai_difficulty = ses'.ai_difficulty]
                  [] game = 2 ->
                     [BreakoutStart(file) EXCEPT
                        !.game_active = TRUE, !.high_score = ses'.high_score]
                  [] game = 3 ->
                     [FlappyStart(file) EXCEPT
                        !.game_active = TRUE, !.high_score = ses'.high_score]
                  [] OTHER ->
                     [ShooterStart(file) EXCEPT
                        !.game_active = TRUE, !.high_score = ses'.high_score,
                        !.wave_start_time = ses'.wave_start_time]]_vars


(***************************************************************************)
(* C19.  Pause exists only within Active: a session whose paused flag is   *)
(* set is active, and a pause key (P or ESC) pressed in Menu or GameOver   *)
(* leaves the whole session state as it was.                               *)
(***************************************************************************)
PauseOutsideActive ==
    /\ pc = "game" /\ pc' = "game"
    /\ ~ses.game_active
    /\ ev'.pause

C19_PauseOnlyInActive ==
    /\ []((pc = "game" /\ ses.paused) => ses.game_active)
    /\ [][PauseOutsideActive => ses' = ses]_vars

\* a pause key was pressed on the game-over screen of a session that had
\* scored, and the session is neither paused nor active
C19_Witness ==
    /\ pc = "game"
    /\ ev.pause
    /\ ses.game_over /\ ~ses.game_active /\ ~ses.paused
    /\ hist.gains > 0


(***************************************************************************)
(* C20.  In Breakout a brick collision negates exactly one velocity        *)
(* component of the ball, whether or not the brick breaks: dx when the     *)
(* distance from the ball's position before the move to the brick along x  *)
(* is smaller in absolute value than the distance along y, dy otherwise.   *)
(* The velocity is the one the ball came to the brick loop with; the call  *)
(* returns it with the speed-up of its last lines applied.                 *)
(***************************************************************************)
\* the distances of the position before the move to the struck brick
XEntry ==
    LET brick == ev.before[StruckIndex]
    IN IF ev.met.dx > 0 THEN brick.rect.x - right(ev.ball.rect)
       ELSE ev.ball.rect.x - right(brick.rect)

YEntry ==
    LET brick == ev.before[StruckIndex]
    IN IF ev.met.dy > 0 THEN brick.rect.y - bottom(ev.ball.rect)
       ELSE ev.ball.rect.y - bottom(brick.rect)

BrickStruck == pc = "ball" /\ now > 0 /\ StruckIndex # 0

C20_OneComponentNegated ==
    BrickStruck =>
        IF Abs(XEntry) < Abs(YEntry)
        THEN /\ ses.ball.dx = SpeedUp(0 - ev.met.dx)
             /\ ses.ball.dy = SpeedUp(ev.met.dy)
        ELSE /\ ses.ball.dx = SpeedUp(ev.met.dx)
             /\ ses.ball.dy = SpeedUp(0 - ev.met.dy)

\* a brick with a hit left was struck from the side and stays in the list:
\* dx is turned, dy is not
C20_Witness ==
    /\ BrickStruck
    /\ ev.broken = <<>>
    /\ Abs(XEntry) < Abs(YEntry)
    /\ ev.met.dx # 0 /\ ev.met.dy # 0
    /\ Sign(ses.ball.dx) = 0 - Sign(ev.met.dx)
    /\ Sign(ses.ball.dy) = Sign(ev.met.dy)


-----------------------------------------------------------------------------
(* Claims about the ball of Pong, checked under SpecPong *)

\* where the move of the last call took the ball
PongMoved ==
    [ev.ball.rect EXCEPT !.x = Moved(@, ev.ball.dx), !.y = Moved(@, ev.ball.dy)]

\* the last call was one that tested the paddles
PaddlesTested == pc = "pong" /\ now > 0 /\ ev.result = "none"

\* the last call bounced the ball off the left, the right paddle
HitLeftPaddle ==
    PaddlesTested /\ colliderect(PongMoved, ses.left.rect) /\ ev.ball.dx < 0

HitRightPaddle ==
    PaddlesTested /\ colliderect(PongMoved, ses.right.rect) /\ ev.ball.dx > 0

(***************************************************************************)
(* C21.  In Pong, after the ball collides with a paddle its horizontal     *)
(* velocity points away from that paddle: dx > 0 after a left-paddle hit   *)
(* and dx < 0 after a right-paddle hit, and the tick after a bounce off a  *)
(* paddle does not bounce the ball off the same paddle again.              *)
(***************************************************************************)
C21_BounceAway ==
    /\ [](HitLeftPaddle => ses.ball.dx > 0)
    /\ [](HitRightPaddle => ses.ball.dx < 0)
    /\ [][/\ HitLeftPaddle => ~HitLeftPaddle'
          /\ HitRightPaddle => ~HitRightPaddle']_vars

\* a bounce off the left paddle that leaves the ball overlapping the paddle
C21_Witness ==
    /\ HitLeftPaddle
    /\ ses.ball.dx > 0
    /\ colliderect(ses.ball.rect, ses.left.rect)


(***************************************************************************)
(* C24.  In Pong the ball's horizontal speed |dx| never exceeds the cap of *)
(* 15, after any number of paddle hits within a rally.                     *)
(***************************************************************************)
C24_SpeedCapped == pc = "pong" => Abs(ses.ball.dx) <= 15 * VScale


-----------------------------------------------------------------------------
(* Claims about the levels of Breakout, checked under Spec *)

\* a tick of Breakout that removes the last brick of the grid
LastBrickRemoved ==
    /\ pc = "game" /\ game = 2 /\ pc' = "game"
    /\ ses.game_active /\ ~ses.paused
    /\ Len(ses.bricks) = 1
    /\ hist'.gains = hist.gains + 1

(***************************************************************************)
(* C22.  In Breakout, in the tick the last brick is removed the level      *)
(* counter increases by 1, a full new brick grid is created, the ball is   *)
(* attached to the paddle again, the paddle width is back at its default   *)
(* and the score gains, besides the points of the brick, 100 times the new *)
(* level; so the list of bricks is never empty after a tick.               *)
(***************************************************************************)
C22_LevelAdvance ==
    /\ []((pc = "game" /\ game = 2) => ses.bricks # <<>>)
    /\ [][LastBrickRemoved =>
            /\ ses'.level = ses.level + 1
            /\ ses'.bricks = create_bricks
            /\ ses'.attached
            /\ ses'.width = PlayPaddle
            /\ ses'.score = ses.score + ses.bricks[1].points
                            + 100 * ses'.level]_vars

\* the session after its first level was cleared: level 2, the points of the
\* two bricks and the bonus of 200
C22_Witness ==
    /\ pc = "game" /\ game = 2
    /\ ses.game_active
    /\ hist.gains = BRICK_ROWS * BRICK_COLS
    /\ ses.level = 2
    /\ ses.bricks = create_bricks
    /\ ses.attached
    /\ ses.width = PlayPaddle
    /\ ses.score = 30 + 200


-----------------------------------------------------------------------------
(* Claims about the scores of Pong, checked under Spec *)

\* a pass of Pong's loop that stays in the game
PongStep == pc = "game" /\ game = 1 /\ pc' = "game"

\* a score reaches 5 in the step, neither being there before
FirstReachesFive ==
    /\ ses.left_score < 5 /\ ses.right_score < 5
    /\ ses'.left_score = 5 \/ ses'.right_score = 5

(***************************************************************************)
(* C23.  In Pong the first player to reach 5 points wins: winning_score is *)
(* 5 in every state of a session, game over screens and restarts included, *)
(* the session enters GameOver exactly in the tick in which a paddle's     *)
(* score first reaches 5, and at GameOver one paddle has 5 points and the  *)
(* other less than 5.                                                      *)
(***************************************************************************)
C23_FirstToFive ==
    /\ []((pc = "game" /\ game = 1) => ses.winning_score = 5)
    /\ []((pc = "game" /\ game = 1 /\ ses.game_over) =>
            IF ses.left_score = 5 THEN ses.right_score < 5
            ELSE ses.right_score = 5 /\ ses.left_score < 5)
    /\ [][PongStep =>
            ((~ses.game_over /\ ses'.game_over) <=> FirstReachesFive)]_vars

\* the right paddle won the game played after a restart
C23_Witness ==
    /\ pc = "game" /\ game = 1
    /\ ses.game_over
    /\ ses.right_score = 5 /\ ses.left_score = 4
    /\ ses.winning_score = 5
    /\ hist.restarts = 1


\* the snake that moves in this step is the one the last move left: its head
\* is the head that move computed, on top of the cells it had
SameSnake ==
    /\ now > 0 /\ ~ev.hit
    /\ Len(ses.positions) >= 2
    /\ ses.positions[1] = ev.head
    /\ ses.positions[2] = ev.positions[1]

\* C25: in Snake no move uses the exact opposite of the direction the move
\* before it used, whatever direction keys are pressed, several presses
\* between two moves included.
C25_NoReversal ==
    [][(CellsMoved /\ SameSnake) =>
         ses.direction # <<0 - ev.dir[1], 0 - ev.dir[2]>>]_vars


-----------------------------------------------------------------------------
(* Claims about the entries a session leaves in the Score Store, under Spec *)

\* C26: a play session, from the launch of a game to the return to the menu,
\* appends its final score to the game's list at most once, the add_score
\* calls made inside the game at GameOver and the launcher's
\* update_leaderboard counted together (last.n counts these calls from the
\* launch on; the session here is one that was never restarted).
C26_OneEntryPerSession ==
    (pc = "launcher" /\ hist.sessions > 0 /\ hist.restarts = 0) => last.n <= 1


-----------------------------------------------------------------------------
(* Claims about the Score Store filled from its empty state, under SpecAdds *)

\* the lists of the store as load_leaderboard returns them
Lists(f) == load_leaderboard(f).ret

(***************************************************************************)
(* C27.  Starting from an empty Score Store, after any sequence of         *)
(* add_score calls with non-negative scores over any titles,               *)
(* get_high_score(game) is the greatest score ever added for that game,    *)
(* and 0 if none was added; and an add_score for one game leaves the list  *)
(* of every other game as it was.                                          *)
(***************************************************************************)
C27_HighScoreIsMax ==
    /\ [](\A g \in CallTitles :
            get_high_score(file, g) = IF hist[g] < 0 THEN 0 ELSE hist[g])
    /\ [][last'.n = last.n + 1 =>
            \A h \in DOMAIN Lists(file) \ {last'.game} :
                /\ h \in DOMAIN Lists(file')
                /\ Lists(file')[h] = Lists(file)[h]]_vars

\* a sixth score for Snake, lower than one added before, went into a full
\* list, and another title has a score as well
C27_Witness ==
    /\ last.n = MaxStoreAdds
    /\ last.game = "Snake" /\ last.score = 0
    /\ Len(Lists(last.before)["Snake"]) = TopN
    /\ hist["Snake"] > 0
    /\ get_high_score(file, "Snake") = hist["Snake"]


-----------------------------------------------------------------------------
(* Claims about the enemies and the lives of Space Shooter, under SpecSwarm *)

\* C28: in Space Shooter the number of live enemies is at most enemy_count,
\* enemy_count is 5 + 2 * (wave - 1), and a tick spawns at most one enemy.
C28_EnemiesBounded ==
    /\ Len(ses.enemies) <= ses.enemy_count
    /\ ses.enemy_count = 5 + 2 * (ses.wave - 1)
    /\ ev.ticked => ev.spawned <= 1

\* in the second wave an enemy was due in a tick, and none was spawned: the
\* list held as many enemies as enemy_count allows
C28_Witness ==
    /\ ev.ticked
    /\ ses.wave = 2
    /\ ev.due
    /\ ev.spawned = 0
    /\ Len(ses.enemies) = ses.enemy_count

\* the enemies that overlap the player in the tick that just ran
Touching == IF ev.ticked THEN Cardinality(ev.on) ELSE 0

\* C30: in Space Shooter a tick takes at most one life however many enemies
\* overlap the player, lives are never negative and at least 1 while the
\* session is active, and an invulnerable player loses no life to an
\* overlapping enemy, which stays in the list.
C30_OneLifePerTick ==
    /\ ses.lives >= 0
    /\ ses.game_active => ses.lives >= 1
    /\ ev.ticked => ses.lives >= ev.before.lives - 1
    /\ (ev.ticked /\ ev.before.invulnerable /\ ev.on # {})
          => /\ ses.lives = ev.before.lives
             /\ ses.enemies = ev.before.enemies

\* three enemies overlapped a vulnerable player: one life went, one enemy too
C30_Witness ==
    /\ Touching = 3
    /\ ~ev.before.invulnerable
    /\ ses.lives = ev.before.lives - 1
    /\ Len(ses.enemies) = Len(ev.before.enemies) - 1

\* two enemies overlapped an invulnerable player, who kept lives and enemies
C30_WitnessInvulnerable ==
    /\ Touching >= 2
    /\ ev.before.invulnerable
    /\ ses.lives = ev.before.lives
    /\ ses.enemies = ev.before.enemies


-----------------------------------------------------------------------------
(* A claim about the cells and the score of the snake, under SpecSnake *)

\* no two segments of the snake are on the same cell
CellsDistinct(positions) ==
    \A i, j \in 1..Len(positions) : i # j => positions[i] # positions[j]

\* C29: in Snake the segment cells are pairwise distinct, the snake has at
\* most grow_to segments, and the score is 10 * (grow_to - 3).
C29_SnakeShape ==
    /\ CellsDistinct(ses.positions)
    /\ Len(ses.positions) <= ses.grow_to
    /\ ses.score = 10 * (ses.grow_to - 3)

\* the snake ate twice and has grown to the five segments grow_to allows
C29_Witness ==
    /\ ses.grow_to = 5
    /\ ses.score = 20
    /\ Len(ses.positions) = 5
    /\ ~ses.dead

====
